---- MODULE Spec2Model ----
(***************************************************************************)
(* Model of dupdel (src/src/dupdel): the duplicate-candidate detection     *)
(* engine.  File names are sequences of characters; indices into names and *)
(* into lists are 0-based as in the Python source (element i of a sequence *)
(* s is s[i + 1]).                                                         *)
(***************************************************************************)
EXTENDS Integers, Sequences, FiniteSets, Bags, TLC

(***************************************************************************)
(* Bounds of the model.                                                    *)
(***************************************************************************)
MaxNameLen == 4
MaxMarkerNameLen == 3
MaxRepeat == 9
MaxSize == 5
MaxMtime == 1
MaxFiles == 3
MaxWorkers == 2
MaxCacheOps == 3
MaxBulk == 2
MaxSessions == 2

\* the names compared for their similarity have up to MaxRatioNameLen
\* characters
MaxRatioNameLen == 3

\* the root directory has at most MaxDirFiles entries
MaxDirFiles == 2

\* the task sizing loop is run for 2..MaxTaskN records
MaxTaskN == 21

\* and for LargeN records: n * (n - 1) / 2 / 200 is close to 500,000
LargeN == 13984

(***************************************************************************)
(* Characters.  ZEN and GO stand for the two broadcast-marker glyphs of    *)
(* _has_zengo_diff (prior part, latter part).                              *)
(***************************************************************************)
ZEN == "zen"
GO == "go"
Digits == {"0", "1", "2", "3", "4", "5", "6", "7", "8", "9"}

\* str.isdigit() on one character
isdigit(c) == c \in Digits

\* constants.py: IGNORE_PAT, the character class removed by normalisation
\* ("wsp" is the full-width space, "kai"/"ji2"/"ji"/"sai" the four
\* broadcast-notation glyphs that precede the two markers in the class)
IGNORE_PAT == Digits \cup {"_", " ", "wsp", "kai", "ji2", "ji", "sai", ZEN, GO, "[", "]"}

\* constants.py: MATCH_TH = 0.85, kept as the exact fraction <<num, den>>
MATCH_TH == <<85, 100>>

\* the value None
None == <<>>

Min(x, y) == IF x <= y THEN x ELSE y
Max(x, y) == IF x >= y THEN x ELSE y
Abs(x) == IF x >= 0 THEN x ELSE -x

\* Python slice s[lo:hi] for 0 <= lo, any hi
Slice(s, lo, hi) == SubSeq(s, lo + 1, Min(hi, Len(s)))

\* any(c.isdigit() for c in s)
AnyDigit(s) == \E k \in 1..Len(s) : isdigit(s[k])

\* re.sub(IGNORE_PAT, "", name)
RECURSIVE re_sub_ignore(_)
re_sub_ignore(name) ==
    IF name = <<>> THEN <<>>
    ELSE IF Head(name) \in IGNORE_PAT THEN re_sub_ignore(Tail(name))
    ELSE <<Head(name)>> \o re_sub_ignore(Tail(name))

(***************************************************************************)
(* difflib.SequenceMatcher(None, a, b) as the source uses it.  No junk     *)
(* predicate is given and the automatic junk heuristic only applies to     *)
(* sequences of 200 or more elements, so on the names of this model        *)
(* find_longest_match returns the longest common block of the two ranges,  *)
(* of those the one starting earliest in a, of those the one starting      *)
(* earliest in b.                                                          *)
(***************************************************************************)
RECURSIVE MatchLen(_, _, _, _, _, _)
MatchLen(a, b, i, j, ahi, bhi) ==
    IF i < ahi /\ j < bhi /\ a[i + 1] = b[j + 1]
    THEN 1 + MatchLen(a, b, i + 1, j + 1, ahi, bhi)
    ELSE 0

SetMax(S) == CHOOSE x \in S : \A y \in S : y <= x
SetMin(S) == CHOOSE x \in S : \A y \in S : x <= y

find_longest_match(a, b, alo, ahi, blo, bhi) ==
    LET cells == (alo..(ahi - 1)) \X (blo..(bhi - 1))
        len == [p \in cells |-> MatchLen(a, b, p[1], p[2], ahi, bhi)]
        best == SetMax({0} \cup {len[p] : p \in cells})
    IN  IF best = 0 THEN <<alo, blo, 0>>
        ELSE LET besti == SetMin({p[1] : p \in {q \in cells : len[q] = best}})
                 bestj == SetMin({p[2] : p \in {q \in cells : q[1] = besti /\ len[q] = best}})
             IN  <<besti, bestj, best>>

\* the recursion of get_matching_blocks over the pieces left and right of
\* each longest match, in increasing order of position
RECURSIVE matching_blocks_in(_, _, _, _, _, _)
matching_blocks_in(a, b, alo, ahi, blo, bhi) ==
    IF alo >= ahi \/ blo >= bhi THEN <<>>
    ELSE LET m == find_longest_match(a, b, alo, ahi, blo, bhi)
             i == m[1]
             j == m[2]
             k == m[3]
         IN  IF k = 0 THEN <<>>
             ELSE matching_blocks_in(a, b, alo, i, blo, j)
                  \o <<m>>
                  \o matching_blocks_in(a, b, i + k, ahi, j + k, bhi)

\* get_matching_blocks: adjacent blocks are merged, the (la, lb, 0) sentinel
\* is appended
RECURSIVE collapse_adjacent(_, _)
collapse_adjacent(blocks, cur) ==
    IF blocks = <<>> THEN (IF cur[3] > 0 THEN <<cur>> ELSE <<>>)
    ELSE LET nxt == Head(blocks)
         IN  IF cur[1] + cur[3] = nxt[1] /\ cur[2] + cur[3] = nxt[2]
             THEN collapse_adjacent(Tail(blocks), <<cur[1], cur[2], cur[3] + nxt[3]>>)
             ELSE (IF cur[3] > 0 THEN <<cur>> ELSE <<>>)
                  \o collapse_adjacent(Tail(blocks), nxt)

get_matching_blocks(a, b) ==
    collapse_adjacent(matching_blocks_in(a, b, 0, Len(a), 0, Len(b)), <<0, 0, 0>>)
    \o <<<<Len(a), Len(b), 0>>>>

\* get_opcodes: the 5-tuples (tag, i1, i2, j1, j2)
RECURSIVE opcodes_from(_, _, _)
opcodes_from(blocks, i, j) ==
    IF blocks = <<>> THEN <<>>
    ELSE LET ai == Head(blocks)[1]
             bj == Head(blocks)[2]
             size == Head(blocks)[3]
             tag == IF i < ai /\ j < bj THEN "replace"
                    ELSE IF i < ai THEN "delete"
                    ELSE IF j < bj THEN "insert"
                    ELSE ""
             diff == IF tag = "" THEN <<>>
                     ELSE <<[tag |-> tag, i1 |-> i, i2 |-> ai, j1 |-> j, j2 |-> bj]>>
             same == IF size > 0
                     THEN <<[tag |-> "equal", i1 |-> ai, i2 |-> ai + size,
                             j1 |-> bj, j2 |-> bj + size]>>
                     ELSE <<>>
         IN  diff \o same \o opcodes_from(Tail(blocks), ai + size, bj + size)

get_opcodes(a, b) == opcodes_from(get_matching_blocks(a, b), 0, 0)

RECURSIVE SumSizes(_)
SumSizes(blocks) == IF blocks = <<>> THEN 0 ELSE Head(blocks)[3] + SumSizes(Tail(blocks))

\* ratio() = 2.0 * matches / length (1.0 when length is 0), as the exact
\* fraction <<numerator, denominator>>
ratio(a, b) ==
    IF Len(a) + Len(b) = 0 THEN <<1, 1>>
    ELSE <<2 * SumSizes(get_matching_blocks(a, b)), Len(a) + Len(b)>>

Count(s, c) == Cardinality({k \in 1..Len(s) : s[k] = c})
Sum2(f, S) ==
    LET RECURSIVE go(_)
        go(T) == IF T = {} THEN 0
                 ELSE LET x == CHOOSE y \in T : TRUE IN f[x] + go(T \ {x})
    IN  go(S)

\* mutant of quick_ratio: each character is counted once
quick_ratio_of_sets(a, b) ==
    LET chars == {a[k] : k \in 1..Len(a)}
        common == [c \in chars |-> IF Count(b, c) > 0 THEN 1 ELSE 0]
    IN  IF Len(a) + Len(b) = 0 THEN <<1, 1>>
        ELSE <<2 * Sum2(common, chars), Len(a) + Len(b)>>

\* quick_ratio(): the matches are the size of the multiset intersection of
\* the characters of a and b
quick_ratio(a, b) ==
    LET chars == {a[k] : k \in 1..Len(a)}
        common == [c \in chars |-> Min(Count(a, c), Count(b, c))]
    IN  IF Len(a) + Len(b) = 0 THEN <<1, 1>>
        ELSE <<2 * Sum2(common, chars), Len(a) + Len(b)>>

\* r <= th for fractions with positive denominators
FracLE(r, th) == r[1] * th[2] <= th[1] * r[2]

(***************************************************************************)
(* core.py: the digit-group helpers and the two name heuristics.           *)
(***************************************************************************)
RECURSIVE ExpandLeft(_, _)
ExpandLeft(name, start) ==
    IF start > 0 /\ isdigit(name[start]) THEN ExpandLeft(name, start - 1) ELSE start

RECURSIVE ExpandRight(_, _)
ExpandRight(name, end) ==
    IF end < Len(name) /\ isdigit(name[end + 1]) THEN ExpandRight(name, end + 1) ELSE end

\* _expand_to_digit_group(name, start, end) -> (start, end)
expand_to_digit_group(name, start, end) == <<ExpandLeft(name, start), ExpandRight(name, end)>>

\* mutant of find_digit_group_in_range: the digit found is not expanded to its group
find_digit_group_not_expanded(name, start, end) ==
    LET hits == {i \in start..(end - 1) : i < Len(name) /\ isdigit(name[i + 1])}
    IN  IF hits = {} THEN None ELSE <<SetMin(hits), SetMin(hits) + 1>>

\* _find_digit_group_in_range(name, start, end) -> (group_start, group_end) | None
find_digit_group_in_range(name, start, end) ==
    LET hits == {i \in start..(end - 1) : i < Len(name) /\ isdigit(name[i + 1])}
    IN  IF hits = {} THEN None
        ELSE LET digit_pos == SetMin(hits)
             IN  <<ExpandLeft(name, digit_pos), ExpandRight(name, digit_pos + 1)>>

\* mutant of has_zengo_diff: only the direction prior -> latter is recognised
has_zengo_diff_one_way(name1, name2) ==
    LET ops == get_opcodes(name1, name2)
        In(c, s) == \E k \in 1..Len(s) : s[k] = c
    IN  \E n \in 1..Len(ops) :
            /\ ops[n].tag = "replace"
            /\ In(ZEN, Slice(name1, ops[n].i1, ops[n].i2))
            /\ In(GO, Slice(name2, ops[n].j1, ops[n].j2))

\* _has_zengo_diff(name1, name2)
has_zengo_diff(name1, name2) ==
    LET ops == get_opcodes(name1, name2)
        In(c, s) == \E k \in 1..Len(s) : s[k] = c
    IN  \E n \in 1..Len(ops) :
            /\ ops[n].tag = "replace"
            /\ LET s1 == Slice(name1, ops[n].i1, ops[n].i2)
                   s2 == Slice(name2, ops[n].j1, ops[n].j2)
               IN  (In(ZEN, s1) /\ In(GO, s2)) \/ (In(GO, s1) /\ In(ZEN, s2))

\* mutant of episode_opcode: only replace segments are examined
episode_opcode_replace_only(name1, name2, op) ==
    /\ op.tag = "replace"
    /\ AnyDigit(Slice(name1, op.i1, op.i2))
    /\ AnyDigit(Slice(name2, op.j1, op.j2))
    /\ LET group1 == find_digit_group_in_range(name1, op.i1, op.i2)
           group2 == find_digit_group_in_range(name2, op.j1, op.j2)
       IN  /\ Len(Slice(name1, group1[1], group1[2])) <= 2
           /\ Len(Slice(name2, group2[1], group2[2])) <= 2

\* one iteration of the loop of _has_episode_number_diff: TRUE when the
\* iteration returns True
episode_opcode(name1, name2, op) ==
    LET i1 == op.i1
        i2 == op.i2
        j1 == op.j1
        j2 == op.j2
    IN  CASE op.tag = "replace" ->
               /\ AnyDigit(Slice(name1, i1, i2))
               /\ AnyDigit(Slice(name2, j1, j2))
               /\ LET group1 == find_digit_group_in_range(name1, i1, i2)
                      group2 == find_digit_group_in_range(name2, j1, j2)
                  IN  /\ group1 # None
                      /\ group2 # None
                      /\ Len(Slice(name1, group1[1], group1[2])) <= 2
                      /\ Len(Slice(name2, group2[1], group2[2])) <= 2
          [] op.tag = "delete" ->
               /\ AnyDigit(Slice(name1, i1, i2))
               /\ LET group1 == find_digit_group_in_range(name1, i1, i2)
                      exp2 == expand_to_digit_group(name2, j1, j1)
                      exp_s2 == Slice(name2, exp2[1], exp2[2])
                  IN  /\ group1 # None
                      /\ (exp_s2 = <<>> \/ \A k \in 1..Len(exp_s2) : isdigit(exp_s2[k]))
                      /\ Len(Slice(name1, group1[1], group1[2])) <= 2
                      /\ Len(exp_s2) <= 2
          [] op.tag = "insert" ->
               /\ AnyDigit(Slice(name2, j1, j2))
               /\ LET group2 == find_digit_group_in_range(name2, j1, j2)
                      exp1 == expand_to_digit_group(name1, i1, i1)
                      exp_s1 == Slice(name1, exp1[1], exp1[2])
                  IN  /\ group2 # None
                      /\ (exp_s1 = <<>> \/ \A k \in 1..Len(exp_s1) : isdigit(exp_s1[k]))
                      /\ Len(exp_s1) <= 2
                      /\ Len(Slice(name2, group2[1], group2[2])) <= 2
          [] OTHER -> FALSE

\* _has_episode_number_diff(name1, name2); autojunk=False makes no difference
\* below 200 characters
has_episode_number_diff(name1, name2) ==
    LET ops == get_opcodes(name1, name2)
    IN  \E n \in 1..Len(ops) : episode_opcode(name1, name2, ops[n])

(***************************************************************************)
(* core.py: PrecomputedFileInfo as precompute_file_info builds it, and     *)
(* compare_pair.  A path is the pair <<directory, base name>>.             *)
(***************************************************************************)
PrecomputedFileInfo(dir, name, size, mtime, index) ==
    [path |-> <<dir, name>>, dir_path |-> dir, name |-> name, rel_name |-> <<dir, name>>,
     normalized |-> re_sub_ignore(name), size |-> size, mtime |-> mtime, index |-> index]

\* the FileInfo built for one side of a candidate
FileInfo(info, sm) ==
    [path |-> info.path, name |-> info.rel_name, basename |-> info.name,
     size |-> info.size, mtime |-> info.mtime, index |-> info.index, sm |-> sm]

\* mutant of length_prefilter: a ratio of exactly 0.5 is rejected too
length_prefilter_inclusive(info1, info2) ==
    LET len1 == Len(info1.normalized)
        len2 == Len(info2.normalized)
    IN  len1 > 0 /\ len2 > 0 /\ 2 * Min(len1, len2) <= Max(len1, len2)

\* lines 187-191: the length-ratio prefilter returns None
length_prefilter(info1, info2) ==
    LET len1 == Len(info1.normalized)
        len2 == Len(info2.normalized)
    IN  /\ len1 > 0
        /\ len2 > 0
        \* min(len1, len2) / max(len1, len2) < 0.5
        /\ 2 * Min(len1, len2) < Max(len1, len2)

\* mutant of size_filter: a difference of exactly 40% passes
size_filter_strict(info1, info2) ==
    LET max_size == Max(info1.size, info2.size)
    IN  max_size > 0 /\ 100 * Abs(info1.size - info2.size) > 40 * max_size

\* mutant of size_filter: the difference is taken relative to the smaller size
size_filter_min(info1, info2) ==
    LET min_size == Min(info1.size, info2.size)
    IN  min_size > 0 /\ 100 * Abs(info1.size - info2.size) >= 40 * min_size

\* lines 209-213: the size filter returns None
size_filter(info1, info2) ==
    LET max_size == Max(info1.size, info2.size)
    IN  /\ max_size > 0
        \* 100 * abs(size1 - size2) / max_size >= 40
        /\ 100 * Abs(info1.size - info2.size) >= 40 * max_size

\* mutant of older_newer: the arguments are kept in call order
older_newer_unordered(info1, info2) == <<info1, info2>>

\* mutant of older_newer: (newer, older)
older_newer_reversed(info1, info2) ==
    IF info1.mtime <= info2.mtime THEN <<info2, info1>> ELSE <<info1, info2>>

\* lines 216-219: (older, newer)
older_newer(info1, info2) ==
    IF info1.mtime <= info2.mtime THEN <<info1, info2>> ELSE <<info2, info1>>

\* the line of compare_pair's return statement that is executed
compare_pair_line(info1, info2, match_th) ==
    IF length_prefilter(info1, info2) THEN 191
    ELSE IF FracLE(quick_ratio(info1.normalized, info2.normalized), match_th) THEN 196
    ELSE IF FracLE(ratio(info1.normalized, info2.normalized), match_th) THEN 198
    ELSE IF has_zengo_diff(info1.name, info2.name) THEN 202
    ELSE IF has_episode_number_diff(info1.name, info2.name) THEN 206
    ELSE IF size_filter(info1, info2) THEN 213
    ELSE 223

\* compare_pair(info1, info2, match_th) -> DupCand | None
compare_pair(info1, info2, match_th) ==
    IF compare_pair_line(info1, info2, match_th) # 223 THEN None
    ELSE LET on == older_newer(info1, info2)
             older == on[1]
             newer == on[2]
             sm == <<older.name, newer.name>>
         IN  <<FileInfo(older, sm), FileInfo(newer, sm)>>

(***************************************************************************)
(* State.  cp_*: one application of compare_pair to two drawn records, in  *)
(* both argument orders; ep_*: one application of                         *)
(* _has_episode_number_diff to their names.                                *)
(***************************************************************************)
VARIABLES cp_info1, cp_info2, cp_th, cp_called, cp_result, cp_line,
          cp_swapped_called, cp_swapped_result, cp_swapped_line,
          ep_called, ep_result

cp_vars == <<cp_info1, cp_info2, cp_th, cp_called, cp_result, cp_line,
             cp_swapped_called, cp_swapped_result, cp_swapped_line,
             ep_called, ep_result>>

(***************************************************************************)
(* State of one call of find_dup_candidates_parallel.                      *)
(*   file_infos, num_workers  the arguments                                *)
(*   tasks          the (start, end) ranges submitted to the pool          *)
(*   futures        per task: "pending", "running", "finished", "failed"   *)
(*                  (the task raised) or "cancelled"                       *)
(*   task_out       per finished task: <<results, valid_comparison_count>> *)
(*   yielded        the tasks as_completed has handed to the loop          *)
(*   all_results    the aggregated candidates                              *)
(*   progress       the calls of progress_callback, in order               *)
(*   evaluated      per pair <<i, j>> of indices: how often a worker       *)
(*                  passed it to compare_pair                              *)
(*   shutdown_event the cancellation flag                                  *)
(*   at_shutdown    history: the tasks that had finished and the list      *)
(*                  aggregated at the moment the flag was set              *)
(*   pc             "call", "loop" (in the as_completed loop), "exit"      *)
(*                  (leaving the with block), "raising" (leaving it with   *)
(*                  an exception), "returned", "raised"                    *)
(***************************************************************************)
VARIABLES file_infos, num_workers, tasks, futures, task_out, yielded,
          all_results, progress, evaluated, shutdown_event, at_shutdown, pc

scan_vars == <<file_infos, num_workers, tasks, futures, task_out, yielded,
               all_results, progress, evaluated, shutdown_event, at_shutdown, pc>>

(***************************************************************************)
(* State of the skip cache.                                                *)
(*   db          cache.db: whether the table skipped_pairs exists, and the *)
(*               bag of its rows (path1, path2)                            *)
(*   cache_call  the last call of a function of cache.py: its arguments,   *)
(*               whether it raised, and its result                         *)
(*   cache_ops   the number of calls made                                  *)
(*   inserted    history: the file pairs inserted since the last clear     *)
(***************************************************************************)
VARIABLES db, cache_call, cache_ops, inserted

cache_vars == <<db, cache_call, cache_ops, inserted>>

(***************************************************************************)
(* State of the interactive sessions.                                      *)
(*   session            the number of the run of the program               *)
(*   fs                 the files of the scanned directory                 *)
(*   ui_pc              where run_interactive stands: "run_interactive",   *)
(*                      "list_files", "scan", "ask", "list_returned",      *)
(*                      "delete", "except", "finally", "ended"             *)
(*   file_path_list     the files listed, oldest first                     *)
(*   pending_questions, dup_cand_list, skipped_pairs                       *)
(*                      the locals of list_dup_cand; ask_i is the loop     *)
(*                      index, filtered_out the candidates found cached    *)
(*   ri_dup_cand_list, ri_skipped_pairs, should_save_cache                 *)
(*                      the locals of run_interactive                      *)
(*   del_i, process_all, has_rejection   the locals of exec_delete         *)
(*   saved              history: the bulk writes of this session           *)
(*   presented          history: the candidates shown, with the answers    *)
(*   rejected_saved     history: the pairs written by earlier sessions     *)
(*   interrupted        history: Ctrl-C was pressed in this session        *)
(*   exit_kind          how run_interactive ended                          *)
(*   del_log            history: the iterations of exec_delete's loop      *)
(*   status             history: the status lines run_interactive printed  *)
(***************************************************************************)
VARIABLES session, fs, ui_pc, file_path_list, pending_questions, filtered_out, ask_i,
          dup_cand_list, skipped_pairs, ri_dup_cand_list, ri_skipped_pairs,
          should_save_cache, del_i, process_all, has_rejection, saved, presented,
          rejected_saved, interrupted, exit_kind, del_log, status

ui_vars == <<session, fs, ui_pc, file_path_list, pending_questions, filtered_out, ask_i,
             dup_cand_list, skipped_pairs, ri_dup_cand_list, ri_skipped_pairs,
             should_save_cache, del_i, process_all, has_rejection, saved, presented,
             rejected_saved, interrupted, exit_kind, del_log, status>>

(***************************************************************************)
(* State of list_files and precompute_file_info, called by list_dup_cand.  *)
(*   walk               what os.walk yields: the directories, top down,    *)
(*                      each with its files                                *)
(*   prep_pc            "idle", "list_files", "listed", "precompute",      *)
(*                      "precomputed", "cancelled"                         *)
(*   lf_d, lf_f         the positions of the two loops of list_files       *)
(*   lf_file_path_list, lf_callbacks                                       *)
(*                      the list of list_files and the number of calls of  *)
(*                      its progress callback                              *)
(*   pre_input, pre_i, pre_result, pre_callbacks                           *)
(*                      the argument, loop index, result and number of     *)
(*                      callback calls of precompute_file_info             *)
(*   pre_stat           history: whether stat() succeeded, per path tried  *)
(*   prep_at_shutdown   history: the lists and counts when the flag was set*)
(***************************************************************************)
VARIABLES walk, prep_pc, lf_d, lf_f, lf_file_path_list, lf_callbacks,
          pre_input, pre_i, pre_result, pre_callbacks, pre_stat, prep_at_shutdown

prep_vars == <<walk, prep_pc, lf_d, lf_f, lf_file_path_list, lf_callbacks,
               pre_input, pre_i, pre_result, pre_callbacks, pre_stat, prep_at_shutdown>>

(***************************************************************************)
(* State of the task sizing loop of find_dup_candidates_parallel.          *)
(*   tk_n, tk_workers   len(file_infos) and num_workers                    *)
(*   tk_pc              "idle", "loop", "done"                             *)
(*   tk_i, tk_current_start, tk_current_count   the locals of the loop     *)
(*   tk_len             len(tasks)                                         *)
(*   tk_last            the task appended last, as <<start, end>>          *)
(***************************************************************************)
VARIABLES tk_n, tk_workers, tk_pc, tk_i, tk_current_start, tk_current_count, tk_len,
          tk_last

task_vars == <<tk_n, tk_workers, tk_pc, tk_i, tk_current_start, tk_current_count, tk_len,
               tk_last>>

vars == <<cp_vars, scan_vars, cache_vars, ui_vars, prep_vars, task_vars>>

\* cache.db without the table skipped_pairs
NoTable == [exists |-> FALSE, rows |-> <<>>]

\* no function of cache.py has been called
NoCall == [op |-> "none", args |-> <<>>, raised |-> FALSE, result |-> <<>>]

\* the skip cache is not used
CacheNotUsed ==
    /\ db = NoTable
    /\ cache_call = NoCall
    /\ cache_ops = 0
    /\ inserted = {}

\* list_files and precompute_file_info are not called
PrepareNotCalled ==
    /\ walk = <<>>
    /\ prep_pc = "idle"
    /\ lf_d = 0
    /\ lf_f = 0
    /\ lf_file_path_list = <<>>
    /\ lf_callbacks = 0
    /\ pre_input = <<>>
    /\ pre_i = 0
    /\ pre_result = <<>>
    /\ pre_callbacks = 0
    /\ pre_stat = <<>>
    /\ prep_at_shutdown = None

\* the task sizing loop is not running
TasksNotCalled ==
    /\ tk_n = 0
    /\ tk_workers = 1
    /\ tk_pc = "idle"
    /\ tk_i = 0
    /\ tk_current_start = 0
    /\ tk_current_count = 0
    /\ tk_len = 0
    /\ tk_last = None

\* the session just started has made no step
SessionReset ==
    /\ file_path_list = <<>>
    /\ pending_questions = <<>>
    /\ filtered_out = <<>>
    /\ ask_i = 0
    /\ dup_cand_list = <<>>
    /\ skipped_pairs = <<>>
    /\ ri_dup_cand_list = <<>>
    /\ ri_skipped_pairs = <<>>
    /\ should_save_cache = FALSE
    /\ del_i = 0
    /\ process_all = FALSE
    /\ has_rejection = FALSE
    /\ saved = <<>>
    /\ presented = <<>>
    /\ interrupted = FALSE
    /\ exit_kind = "running"
    /\ del_log = <<>>
    /\ status = <<>>

\* run_interactive is not called
SessionNotStarted ==
    /\ PrepareNotCalled
    /\ TasksNotCalled
    /\ session = 0
    /\ fs = {}
    /\ ui_pc = "idle"
    /\ rejected_saved = {}
    /\ SessionReset

\* no scan is in progress
ScanNotCalled ==
    /\ file_infos = <<>>
    /\ num_workers = 1
    /\ tasks = <<>>
    /\ futures = <<>>
    /\ task_out = <<>>
    /\ yielded = {}
    /\ all_results = <<>>
    /\ progress = <<>>
    /\ evaluated = <<>>
    /\ shutdown_event = FALSE
    /\ at_shutdown = None
    /\ pc = "idle"

\* the names of 1..maxlen characters over an alphabet
Names(alphabet, maxlen) == UNION {[1..n -> alphabet] : n \in 1..maxlen}

\* n copies of the character c
Repeat(c, n) == [k \in 1..n |-> c]

\* the thresholds drawn: the program's MATCH_TH and a laxer one
Thresholds == {MATCH_TH, <<1, 2>>}

\* nothing has been compared yet
CpNotCalled ==
    /\ ScanNotCalled
    /\ CacheNotUsed
    /\ SessionNotStarted
    /\ cp_called = FALSE
    /\ cp_result = None
    /\ cp_line = 0
    /\ cp_swapped_called = FALSE
    /\ cp_swapped_result = None
    /\ cp_swapped_line = 0
    /\ ep_called = FALSE
    /\ ep_result = FALSE

\* two files of one directory whose names are drawn over letters and digits
EpisodeAlphabet == {"a", "1", "2"}
InitEpisode ==
    /\ \E name1, name2 \in Names(EpisodeAlphabet, MaxNameLen) :
          /\ name1 # name2
          /\ cp_info1 = PrecomputedFileInfo("d", name1, 1, 0, 1)
          /\ cp_info2 = PrecomputedFileInfo("d", name2, 1, 1, 2)
    /\ cp_th = MATCH_TH
    /\ CpNotCalled

\* compare_pair(info1, info2, match_th)
ComparePair ==
    /\ ~cp_called
    /\ cp_called' = TRUE
    /\ cp_result' = compare_pair(cp_info1, cp_info2, cp_th)
    /\ cp_line' = compare_pair_line(cp_info1, cp_info2, cp_th)
    /\ UNCHANGED <<cp_info1, cp_info2, cp_th,
                   cp_swapped_called, cp_swapped_result, cp_swapped_line,
                   ep_called, ep_result, scan_vars, cache_vars, ui_vars,
                   prep_vars, task_vars>>

\* then compare_pair(info2, info1, match_th)
ComparePairSwapped ==
    /\ cp_called
    /\ ~cp_swapped_called
    /\ cp_swapped_called' = TRUE
    /\ cp_swapped_result' = compare_pair(cp_info2, cp_info1, cp_th)
    /\ cp_swapped_line' = compare_pair_line(cp_info2, cp_info1, cp_th)
    /\ UNCHANGED <<cp_info1, cp_info2, cp_th, cp_called, cp_result, cp_line,
                   ep_called, ep_result, scan_vars, cache_vars, ui_vars,
                   prep_vars, task_vars>>

\* then _has_episode_number_diff(info1.name, info2.name)
HasEpisodeNumberDiff ==
    /\ cp_called
    /\ ~ep_called
    /\ ep_called' = TRUE
    /\ ep_result' = has_episode_number_diff(cp_info1.name, cp_info2.name)
    /\ UNCHANGED <<cp_info1, cp_info2, cp_th, cp_called, cp_result, cp_line,
                   cp_swapped_called, cp_swapped_result, cp_swapped_line, scan_vars, cache_vars, ui_vars,
                   prep_vars, task_vars>>

NextEpisode == ComparePair \/ HasEpisodeNumberDiff

SpecEpisode == InitEpisode /\ [][NextEpisode]_vars

\* the same records, compared in both argument orders
NextCompare == ComparePair \/ ComparePairSwapped

SpecSymmetry == InitEpisode /\ [][NextCompare]_vars

\* two files of one directory whose names carry the broadcast markers, with
\* equal and unequal sizes, either file the older, under both thresholds
MarkerAlphabet == {"a", ZEN, GO}
InitMarker ==
    /\ \E name1, name2 \in Names(MarkerAlphabet, MaxMarkerNameLen) :
       \E size2 \in {1, 5}, mtime1 \in {0, 2} :
          /\ name1 # name2
          /\ cp_info1 = PrecomputedFileInfo("d", name1, 5, mtime1, 1)
          /\ cp_info2 = PrecomputedFileInfo("d", name2, size2, 1, 2)
    /\ cp_th \in Thresholds
    /\ CpNotCalled

SpecMarker == InitMarker /\ [][ComparePair]_vars

\* a few names with every pair of sizes and modification times: the sizes
\* 0..MaxSize and the boundary examples 1000 against 599, 600 and 601
Sizes == (0..MaxSize) \cup {599, 600, 601, 1000}
InitMeta ==
    /\ \E name1 \in {<<"a">>, <<"a", "1">>}, name2 \in {<<"a", "_">>, <<"a", "2">>} :
       \E size1, size2 \in Sizes, mtime1, mtime2 \in 0..MaxMtime :
          /\ cp_info1 = PrecomputedFileInfo("d", name1, size1, mtime1, 1)
          /\ cp_info2 = PrecomputedFileInfo("d", name2, size2, mtime2, 2)
    /\ cp_th = MATCH_TH
    /\ CpNotCalled

SpecMeta == InitMeta /\ [][NextCompare]_vars

\* names whose normalized forms have every pair of lengths 0..MaxRepeat
InitLength ==
    /\ \E k1, k2 \in 0..MaxRepeat :
          /\ cp_info1 = PrecomputedFileInfo("d", <<"1">> \o Repeat("a", k1), 1, 0, 1)
          /\ cp_info2 = PrecomputedFileInfo("d", <<"_">> \o Repeat("a", k2), 1, 1, 2)
    /\ cp_th \in Thresholds
    /\ CpNotCalled

SpecLength == InitLength /\ [][ComparePair]_vars

\* two files of one directory whose names are drawn over two letters and a
\* digit, so that the order of the characters differs between the names
InitRatio ==
    /\ \E name1, name2 \in Names({"a", "b", "1"}, MaxRatioNameLen) :
          /\ cp_info1 = PrecomputedFileInfo("d", name1, 1, 0, 1)
          /\ cp_info2 = PrecomputedFileInfo("d", name2, 1, 1, 2)
    /\ cp_th \in Thresholds
    /\ CpNotCalled

SpecRatio == InitRatio /\ [][ComparePair]_vars

(***************************************************************************)
(* core.py: find_dup_candidates_parallel and its worker.                   *)
(***************************************************************************)
\* line 299
max_comparisons_per_task == 500000

\* line 297
min_tasks(workers) == Max(200, workers * 50)

\* line 300
target_per_task(n, workers) ==
    Min(max_comparisons_per_task, Max(1, ((n * (n - 1)) \div 2) \div min_tasks(workers)))

\* lines 307-312: the loop over the start indices i, from i on
RECURSIVE tasks_loop(_, _, _, _, _)
tasks_loop(n, target, i, current_start, current_count) ==
    IF i >= n - 1 THEN <<>>
    ELSE LET count == current_count + (n - 1 - i)
         IN  IF count >= target \/ i = n - 2
             THEN <<<<current_start, i + 1, MATCH_TH>>>> \o tasks_loop(n, target, i + 1, i + 1, 0)
             ELSE tasks_loop(n, target, i + 1, current_start, count)

\* lines 296-315: the task list for n records
make_tasks(n, workers) ==
    LET made == tasks_loop(n, target_per_task(n, workers), 0, 0, 0)
    IN  IF made = <<>> THEN <<<<0, n - 1, MATCH_TH>>>> ELSE made

\* mutant of inner_range: the inner loop stops one record early
inner_range_short(i, n) == (i + 1)..(n - 2)

\* line 269: range(i + 1, _worker_n)
inner_range(i, n) == (i + 1)..(n - 1)

\* lines 267-270: the index pairs (i, j) a task visits, in visiting order
RECURSIVE row_pairs(_, _, _)
row_pairs(i, j, n) ==
    IF j \notin inner_range(i, n) THEN <<>> ELSE <<<<i, j>>>> \o row_pairs(i, j + 1, n)

RECURSIVE range_pairs(_, _, _)
range_pairs(i, end_idx, n) ==
    IF i >= end_idx THEN <<>> ELSE row_pairs(i, i + 1, n) \o range_pairs(i + 1, end_idx, n)

\* mutant of same_directory: the directory check is dropped
same_directory_any(info1, info2) == TRUE

\* line 272: the pair is compared only if the directories are equal
same_directory(info1, info2) == info1.dir_path = info2.dir_path

\* lines 271-277 over a sequence of index pairs: the candidates found
RECURSIVE compare_all(_, _, _)
compare_all(infos, pairs, match_th) ==
    IF pairs = <<>> THEN <<>>
    ELSE LET info1 == infos[Head(pairs)[1] + 1]
             info2 == infos[Head(pairs)[2] + 1]
             result == compare_pair(info1, info2, match_th)
         IN  (IF same_directory(info1, info2) /\ result # None THEN <<result>> ELSE <<>>)
             \o compare_all(infos, Tail(pairs), match_th)

\* the pairs of a task that pass the directory check
valid_pairs(infos, task) ==
    LET pairs == range_pairs(task[1], task[2], Len(infos))
        Valid(p) == same_directory(infos[p[1] + 1], infos[p[2] + 1])
    IN  SelectSeq(pairs, Valid)

\* lines 30-37: the sum over the directories of count * (count - 1) // 2
count_valid_comparisons(infos) ==
    LET dir_counts == [d \in {infos[k].dir_path : k \in DOMAIN infos} |->
                          Cardinality({k \in DOMAIN infos : infos[k].dir_path = d})]
        RECURSIVE total(_)
        total(dirs) ==
            IF dirs = {} THEN 0
            ELSE LET d == CHOOSE x \in dirs : TRUE
                 IN  (dir_counts[d] * (dir_counts[d] - 1)) \div 2 + total(dirs \ {d})
    IN  total(DOMAIN dir_counts)

\* mutant of worker_compare_range: every pair visited is counted
worker_compare_range_counting_all(infos, task) ==
    <<compare_all(infos, range_pairs(task[1], task[2], Len(infos)), task[3]),
      Len(range_pairs(task[1], task[2], Len(infos)))>>

\* _worker_compare_range(args) -> (results, valid_comparison_count)
worker_compare_range(infos, task) ==
    <<compare_all(infos, range_pairs(task[1], task[2], Len(infos)), task[3]),
      Len(valid_pairs(infos, task))>>

Occurrences(seq, x) == Cardinality({k \in 1..Len(seq) : seq[k] = x})

TaskIds == 1..Len(tasks)
InState(st) == {t \in TaskIds : futures[t] = st}

\* a list of up to MaxFiles distinct files of two directories, oldest first
ScanDirs == {"d1", "d2"}
ScanNames == {<<"a">>, <<"a", "_">>, <<"a", "1">>}
ScanFiles == ScanDirs \X ScanNames
FileLists ==
    UNION {{f \in [1..n -> ScanFiles] : \A x, y \in 1..n : x # y => f[x] # f[y]} :
           n \in 0..MaxFiles}

\* compare_pair is not applied on its own
CpIdle ==
    /\ cp_info1 = None
    /\ cp_info2 = None
    /\ cp_th = MATCH_TH
    /\ cp_called = FALSE
    /\ cp_result = None
    /\ cp_line = 0
    /\ cp_swapped_called = FALSE
    /\ cp_swapped_result = None
    /\ cp_swapped_line = 0
    /\ ep_called = FALSE
    /\ ep_result = FALSE

InitScan ==
    /\ CacheNotUsed
    /\ SessionNotStarted
    /\ cp_info1 = None
    /\ cp_info2 = None
    /\ cp_th = MATCH_TH
    /\ cp_called = FALSE
    /\ cp_result = None
    /\ cp_line = 0
    /\ cp_swapped_called = FALSE
    /\ cp_swapped_result = None
    /\ cp_swapped_line = 0
    /\ ep_called = FALSE
    /\ ep_result = FALSE
    /\ \E f \in FileLists :
          file_infos = [k \in 1..Len(f) |->
                          PrecomputedFileInfo(f[k][1], f[k][2], 1, Min(k - 1, MaxMtime), k)]
    /\ num_workers \in 1..MaxWorkers
    /\ tasks = <<>>
    /\ futures = <<>>
    /\ task_out = <<>>
    /\ yielded = {}
    /\ all_results = <<>>
    /\ progress = <<>>
    /\ evaluated = <<>>
    /\ shutdown_event = FALSE
    /\ at_shutdown = None
    /\ pc = "call"

\* lines 288-325: fewer than two records return []; otherwise the tasks are
\* formed and all submitted to the pool
Submit ==
    /\ pc = "call"
    /\ IF Len(file_infos) < 2
       THEN /\ pc' = "returned"
            /\ UNCHANGED <<tasks, futures, task_out, evaluated>>
       ELSE /\ pc' = "loop"
            /\ tasks' = make_tasks(Len(file_infos), num_workers)
            /\ futures' = [t \in 1..Len(tasks') |-> "pending"]
            /\ task_out' = [t \in 1..Len(tasks') |-> <<<<>>, 0>>]
            /\ evaluated' = [p \in (0..(Len(file_infos) - 1)) \X (0..(Len(file_infos) - 1)) |-> 0]
    /\ UNCHANGED <<file_infos, num_workers, yielded, all_results, progress,
                   shutdown_event, at_shutdown, cp_vars, prep_vars, task_vars, cache_vars, ui_vars>>

\* the pool hands the oldest pending task to a free worker
WorkerStart ==
    /\ pc \in {"loop", "exit", "raising"}
    /\ InState("pending") # {}
    /\ Cardinality(InState("running")) < num_workers
    /\ futures' = [futures EXCEPT ![SetMin(InState("pending"))] = "running"]
    /\ UNCHANGED <<file_infos, num_workers, tasks, task_out, yielded, all_results,
                   progress, evaluated, shutdown_event, pc, at_shutdown, cp_vars, prep_vars, task_vars, cache_vars, ui_vars>>

\* a worker runs _worker_compare_range on its task to the end
WorkerFinish(t) ==
    /\ futures[t] = "running"
    /\ futures' = [futures EXCEPT ![t] = "finished"]
    /\ task_out' = [task_out EXCEPT ![t] = worker_compare_range(file_infos, tasks[t])]
    /\ evaluated' = [p \in DOMAIN evaluated |->
                        evaluated[p] + Occurrences(valid_pairs(file_infos, tasks[t]), p)]
    /\ UNCHANGED <<file_infos, num_workers, tasks, yielded, all_results, progress,
                   shutdown_event, pc, at_shutdown, cp_vars, prep_vars, task_vars, cache_vars, ui_vars>>

\* a task ends with an unexpected exception
WorkerFail(t) ==
    /\ futures[t] = "running"
    /\ futures' = [futures EXCEPT ![t] = "failed"]
    /\ UNCHANGED <<file_infos, num_workers, tasks, task_out, yielded, all_results,
                   progress, evaluated, shutdown_event, pc, at_shutdown, cp_vars, prep_vars, task_vars, cache_vars, ui_vars>>

\* mutant of Collect: a cancelled scan throws away what it had aggregated
Collect_discarding(t) ==
    /\ pc = "loop"
    /\ t \notin yielded
    /\ futures[t] \in {"finished", "failed"}
    /\ yielded' = yielded \cup {t}
    /\ IF shutdown_event
       THEN /\ futures' = [u \in TaskIds |->
                              IF futures[u] = "pending" THEN "cancelled" ELSE futures[u]]
            /\ pc' = "exit"
            /\ all_results' = <<>>
            /\ UNCHANGED progress
       ELSE IF futures[t] = "failed"
       THEN /\ pc' = "raising"
            /\ UNCHANGED <<futures, all_results, progress>>
       ELSE /\ all_results' = all_results \o task_out[t][1]
            /\ progress' = Append(progress, <<task_out[t][2], Len(task_out[t][1])>>)
            /\ UNCHANGED <<futures, pc>>
    /\ UNCHANGED <<file_infos, num_workers, tasks, task_out, evaluated,
                   shutdown_event, at_shutdown, cp_vars, prep_vars, task_vars, cache_vars, ui_vars>>

\* mutant of Collect: the exception of a failed task is swallowed and the
\* loop goes on
Collect_swallowing(t) ==
    /\ pc = "loop"
    /\ t \notin yielded
    /\ futures[t] \in {"finished", "failed"}
    /\ yielded' = yielded \cup {t}
    /\ IF shutdown_event
       THEN /\ futures' = [u \in TaskIds |->
                              IF futures[u] = "pending" THEN "cancelled" ELSE futures[u]]
            /\ pc' = "exit"
            /\ UNCHANGED <<all_results, progress>>
       ELSE IF futures[t] = "failed"
       THEN UNCHANGED <<futures, pc, all_results, progress>>
       ELSE /\ all_results' = all_results \o task_out[t][1]
            /\ progress' = Append(progress, <<task_out[t][2], Len(task_out[t][1])>>)
            /\ UNCHANGED <<futures, pc>>
    /\ UNCHANGED <<file_infos, num_workers, tasks, task_out, evaluated,
                   shutdown_event, at_shutdown, cp_vars, prep_vars, task_vars, cache_vars, ui_vars>>

\* lines 327-336: one iteration of the loop over as_completed(futures)
Collect(t) ==
    /\ pc = "loop"
    /\ t \notin yielded
    /\ futures[t] \in {"finished", "failed"}
    /\ yielded' = yielded \cup {t}
    /\ IF shutdown_event
       THEN \* executor.shutdown(wait=False, cancel_futures=True); break
            /\ futures' = [u \in TaskIds |->
                              IF futures[u] = "pending" THEN "cancelled" ELSE futures[u]]
            /\ pc' = "exit"
            /\ UNCHANGED <<all_results, progress>>
       ELSE IF futures[t] = "failed"
       THEN \* future.result() raises
            /\ pc' = "raising"
            /\ UNCHANGED <<futures, all_results, progress>>
       ELSE /\ all_results' = all_results \o task_out[t][1]
            /\ progress' = Append(progress, <<task_out[t][2], Len(task_out[t][1])>>)
            /\ UNCHANGED <<futures, pc>>
    /\ UNCHANGED <<file_infos, num_workers, tasks, task_out, evaluated,
                   shutdown_event, at_shutdown, cp_vars, prep_vars, task_vars, cache_vars, ui_vars>>

\* as_completed is exhausted: the loop ends
LoopEnd ==
    /\ pc = "loop"
    /\ yielded = TaskIds
    /\ pc' = "exit"
    /\ UNCHANGED <<file_infos, num_workers, tasks, futures, task_out, yielded,
                   all_results, progress, evaluated, shutdown_event, at_shutdown, cp_vars, prep_vars, task_vars, cache_vars, ui_vars>>

\* the with block is left once the pool has no task left to run
\* (shutdown(wait=True)): line 338 returns, or the exception propagates
ExitWith ==
    /\ pc \in {"exit", "raising"}
    /\ InState("pending") = {}
    /\ InState("running") = {}
    /\ pc' = IF pc = "exit" THEN "returned" ELSE "raised"
    /\ UNCHANGED <<file_infos, num_workers, tasks, futures, task_out, yielded,
                   all_results, progress, evaluated, shutdown_event, at_shutdown, cp_vars, prep_vars, task_vars, cache_vars, ui_vars>>

\* the cancellation flag is set; at_shutdown records the moment
SetShutdown ==
    /\ pc \in {"call", "loop", "exit", "raising"}
    /\ ~shutdown_event
    /\ shutdown_event' = TRUE
    /\ at_shutdown' = [finished |-> InState("finished"), results |-> all_results]
    /\ UNCHANGED <<file_infos, num_workers, tasks, futures, task_out, yielded,
                   all_results, progress, evaluated, pc, cp_vars, prep_vars, task_vars, cache_vars, ui_vars>>

NextScan ==
    \/ Submit
    \/ WorkerStart
    \/ \E t \in TaskIds : WorkerFinish(t)
    \/ \E t \in TaskIds : WorkerFail(t)
    \/ \E t \in TaskIds : Collect(t)
    \/ LoopEnd
    \/ ExitWith
    \/ SetShutdown

SpecScan == InitScan /\ [][NextScan]_vars


(***************************************************************************)
(* cache.py: the skip cache.  Paths are sequences of characters;           *)
(* os.path.abspath and the order < of Python strings are computed as the   *)
(* library computes them.                                                  *)
(***************************************************************************)
\* the code point of a character
ord(c) ==
    CASE c = "." -> 46 [] c = "/" -> 47 [] c = "1" -> 49 [] c = "2" -> 50
      [] c = "_" -> 95 [] c = "a" -> 97 [] c = "b" -> 98 [] c = "d" -> 100
      [] c = "e" -> 101 [] c = ZEN -> 21069 [] c = GO -> 24460

\* str.__lt__: lexicographic by code point
RECURSIVE str_lt(_, _)
str_lt(s, t) ==
    IF t = <<>> THEN FALSE
    ELSE IF s = <<>> THEN TRUE
    ELSE IF Head(s) = Head(t) THEN str_lt(Tail(s), Tail(t))
    ELSE ord(Head(s)) < ord(Head(t))

\* os.getcwd()
getcwd == <<"/", "d">>

DotDot == <<".", ".">>

\* path.split("/")
RECURSIVE split_slash(_, _)
split_slash(path, cur) ==
    IF path = <<>> THEN <<cur>>
    ELSE IF Head(path) = "/" THEN <<cur>> \o split_slash(Tail(path), <<>>)
    ELSE split_slash(Tail(path), Append(cur, Head(path)))

\* "/".join(comps)
RECURSIVE join_slash(_)
join_slash(comps) ==
    IF comps = <<>> THEN <<>>
    ELSE IF Len(comps) = 1 THEN comps[1]
    ELSE comps[1] \o <<"/">> \o join_slash(Tail(comps))

\* the loop of posixpath.normpath over the components
RECURSIVE norm_comps(_, _, _)
norm_comps(comps, new_comps, initial_slashes) ==
    IF comps = <<>> THEN new_comps
    ELSE LET comp == Head(comps)
         IN  IF comp = <<>> \/ comp = <<".">>
             THEN norm_comps(Tail(comps), new_comps, initial_slashes)
             ELSE IF \/ comp # DotDot
                     \/ (initial_slashes = 0 /\ new_comps = <<>>)
                     \/ (new_comps # <<>> /\ new_comps[Len(new_comps)] = DotDot)
             THEN norm_comps(Tail(comps), Append(new_comps, comp), initial_slashes)
             ELSE IF new_comps # <<>>
             THEN norm_comps(Tail(comps), SubSeq(new_comps, 1, Len(new_comps) - 1),
                             initial_slashes)
             ELSE norm_comps(Tail(comps), new_comps, initial_slashes)

\* posixpath.normpath
normpath(path) ==
    IF path = <<>> THEN <<".">>
    ELSE LET starts(n) == Len(path) >= n /\ \A k \in 1..n : path[k] = "/"
             initial_slashes == IF starts(2) /\ ~starts(3) THEN 2
                                ELSE IF starts(1) THEN 1 ELSE 0
             joined == join_slash(norm_comps(split_slash(path, <<>>), <<>>, initial_slashes))
             result == [k \in 1..initial_slashes |-> "/"] \o joined
         IN  IF result = <<>> THEN <<".">> ELSE result

\* posixpath.abspath: a relative path is joined to the working directory
abspath(path) ==
    IF path # <<>> /\ Head(path) = "/" THEN normpath(path)
    ELSE normpath(getcwd \o <<"/">> \o path)

\* _normalize_path
normalize_path(path) == abspath(path)

\* mutant of get_pair_key: the two paths are not sorted
get_pair_key_unsorted(path1, path2) == <<normalize_path(path1), normalize_path(path2)>>

\* _get_pair_key
get_pair_key(path1, path2) ==
    LET p1 == normalize_path(path1)
        p2 == normalize_path(path2)
    IN  IF str_lt(p1, p2) THEN <<p1, p2>> ELSE <<p2, p1>>

\* the outcome of a statement on a database without the table
OperationalError == "sqlite3.OperationalError"

\* mutant of init_cache_db: the table is created anew on every call
init_cache_db_recreating(database) == [exists |-> TRUE, rows |-> EmptyBag]

\* init_cache_db: CREATE TABLE IF NOT EXISTS skipped_pairs
init_cache_db(database) ==
    IF database.exists THEN database ELSE [exists |-> TRUE, rows |-> EmptyBag]

\* mutant of insert_or_replace: the row is added whatever is stored
insert_plain(table, key) == table (+) SetToBag({key})

\* INSERT OR REPLACE INTO skipped_pairs (path1, path2) under
\* PRIMARY KEY (path1, path2): the rows with this key are deleted and the
\* row is inserted
insert_or_replace(table, key) ==
    LET kept == [row \in {r \in BagToSet(table) : r # key} |-> table[row]]
    IN  kept (+) SetToBag({key})

\* is_pair_cached: SELECT 1 ... WHERE path1 = ? AND path2 = ?
is_pair_cached(table, path1, path2) == BagIn(get_pair_key(path1, path2), table)

\* _cache_pair
cache_pair(table, path1, path2) == insert_or_replace(table, get_pair_key(path1, path2))

\* cache_pairs_bulk: executemany over the keys, in order
RECURSIVE cache_pairs_bulk(_, _)
cache_pairs_bulk(table, pairs) ==
    IF pairs = <<>> THEN table
    ELSE cache_pairs_bulk(insert_or_replace(table, get_pair_key(Head(pairs)[1], Head(pairs)[2])),
                          Tail(pairs))

\* _get_cached_count: SELECT COUNT(*)
get_cached_count(table) == BagCardinality(table)

\* _clear_cache: DELETE FROM skipped_pairs
clear_cache(table) == EmptyBag

\* the path arguments drawn: absolute and relative spellings of a few files
CachePaths ==
    {<<"/", "a">>, <<"/", "b">>, <<"a">>, <<"/", "/", "a">>,
     <<"/", "d", "/", ".", ".", "/", "b">>}
CachePairs == CachePaths \X CachePaths

\* the pairs drawn for the bulk insert: a pair, the same pair reversed, the
\* same pair spelled otherwise, and a pair of two spellings of one file
BulkPairs ==
    {<<<<"/", "a">>, <<"/", "b">>>>, <<<<"/", "b">>, <<"/", "a">>>>,
     <<<<"/", "d", "/", ".", ".", "/", "b">>, <<"/", "/", "a">>>>,
     <<<<"a">>, <<"/", "d", "/", "a">>>>}
BulkLists == UNION {[1..n -> BulkPairs] : n \in 0..MaxBulk}

\* the unordered pair of files two path arguments name
FilePair(path1, path2) == {normalize_path(path1), normalize_path(path2)}

RECURSIVE FilePairsOf(_)
FilePairsOf(pairs) ==
    IF pairs = <<>> THEN {}
    ELSE {FilePair(Head(pairs)[1], Head(pairs)[2])} \cup FilePairsOf(Tail(pairs))

\* a fresh application directory: cache.db does not exist
InitCache ==
    /\ CpIdle
    /\ ScanNotCalled
    /\ SessionNotStarted
    /\ CacheNotUsed

\* a statement on the missing table raises and changes nothing
Raises(op, args) ==
    /\ ~db.exists
    /\ cache_call' = [op |-> op, args |-> args, raised |-> TRUE, result |-> OperationalError]
    /\ UNCHANGED <<db, inserted>>

InitCacheDb ==
    /\ cache_ops < MaxCacheOps
    /\ cache_ops' = cache_ops + 1
    /\ db' = init_cache_db(db)
    /\ cache_call' = [op |-> "init_cache_db", args |-> <<>>, raised |-> FALSE, result |-> None]
    /\ UNCHANGED <<inserted, cp_vars, prep_vars, task_vars, scan_vars, ui_vars>>

IsPairCached(path1, path2) ==
    /\ cache_ops < MaxCacheOps
    /\ cache_ops' = cache_ops + 1
    /\ \/ Raises("is_pair_cached", <<path1, path2>>)
       \/ /\ db.exists
          /\ cache_call' = [op |-> "is_pair_cached", args |-> <<path1, path2>>, raised |-> FALSE,
                            result |-> is_pair_cached(db.rows, path1, path2)]
          /\ UNCHANGED <<db, inserted>>
    /\ UNCHANGED <<cp_vars, prep_vars, task_vars, scan_vars, ui_vars>>

CachePair(path1, path2) ==
    /\ cache_ops < MaxCacheOps
    /\ cache_ops' = cache_ops + 1
    /\ \/ Raises("cache_pair", <<path1, path2>>)
       \/ /\ db.exists
          /\ db' = [db EXCEPT !.rows = cache_pair(db.rows, path1, path2)]
          /\ inserted' = inserted \cup {FilePair(path1, path2)}
          /\ cache_call' = [op |-> "cache_pair", args |-> <<path1, path2>>, raised |-> FALSE, result |-> None]
    /\ UNCHANGED <<cp_vars, prep_vars, task_vars, scan_vars, ui_vars>>

\* line 75: an empty list returns 0 without opening the database
CachePairsBulk(pairs) ==
    /\ cache_ops < MaxCacheOps
    /\ cache_ops' = cache_ops + 1
    /\ \/ /\ pairs = <<>>
          /\ cache_call' = [op |-> "cache_pairs_bulk", args |-> pairs, raised |-> FALSE, result |-> 0]
          /\ UNCHANGED <<db, inserted>>
       \/ /\ pairs # <<>>
          /\ Raises("cache_pairs_bulk", pairs)
       \/ /\ pairs # <<>>
          /\ db.exists
          /\ db' = [db EXCEPT !.rows = cache_pairs_bulk(db.rows, pairs)]
          /\ inserted' = inserted \cup FilePairsOf(pairs)
          /\ cache_call' = [op |-> "cache_pairs_bulk", args |-> pairs, raised |-> FALSE, result |-> Len(pairs)]
    /\ UNCHANGED <<cp_vars, prep_vars, task_vars, scan_vars, ui_vars>>

GetCachedCount ==
    /\ cache_ops < MaxCacheOps
    /\ cache_ops' = cache_ops + 1
    /\ \/ Raises("get_cached_count", <<>>)
       \/ /\ db.exists
          /\ cache_call' = [op |-> "get_cached_count", args |-> <<>>, raised |-> FALSE,
                            result |-> get_cached_count(db.rows)]
          /\ UNCHANGED <<db, inserted>>
    /\ UNCHANGED <<cp_vars, prep_vars, task_vars, scan_vars, ui_vars>>

ClearCache ==
    /\ cache_ops < MaxCacheOps
    /\ cache_ops' = cache_ops + 1
    /\ \/ Raises("clear_cache", <<>>)
       \/ /\ db.exists
          /\ db' = [db EXCEPT !.rows = clear_cache(db.rows)]
          /\ inserted' = {}
          /\ cache_call' = [op |-> "clear_cache", args |-> <<>>, raised |-> FALSE, result |-> None]
    /\ UNCHANGED <<cp_vars, prep_vars, task_vars, scan_vars, ui_vars>>

NextCache ==
    \/ InitCacheDb
    \/ \E p \in CachePairs : IsPairCached(p[1], p[2])
    \/ \E p \in CachePairs : CachePair(p[1], p[2])
    \/ \E pairs \in BulkLists : CachePairsBulk(pairs)
    \/ GetCachedCount
    \/ ClearCache

SpecCache == InitCache /\ [][NextCache]_vars


(***************************************************************************)
(* ui.py: run_interactive, list_dup_cand and exec_delete.                  *)
(***************************************************************************)
\* str(Path(root) / name): the text of a path under the scanned directory
path_text(path) == <<"/", path[1], "/">> \o path[2]

\* the scanned directory and the files found in it at the first session
SessionDir == "d"
SessionNames == {<<"a">>, <<"a", "_">>, <<"_", "a">>}
SessionFiles == {<<SessionDir, name>> : name \in SessionNames}

\* the orders in which sort_files_by_mtime can list a set of files
Listings(files) ==
    {f \in [1..Cardinality(files) -> files] : \A x, y \in DOMAIN f : x # y => f[x] # f[y]}

\* str.lower() of an answer
lower(ans) == CASE ans = "Y" -> "y" [] ans = "Q" -> "q" [] OTHER -> ans

\* what the user may type at the question "same? [y/n/q]"
Answers == {"y", "Y", "q", "n", ""}

\* what the user may type at the question "delete? [y/n/a]"
DeleteAnswers == {"y", "a", "n", ""}

\* mutant of filter_cached: the lookup uses the paths as labelled
RECURSIVE filter_cached_labelled(_, _)
filter_cached_labelled(table, questions) ==
    IF questions = <<>> THEN <<>>
    ELSE (IF BagIn(<<normalize_path(path_text(Head(questions)[1]["path"])),
                     normalize_path(path_text(Head(questions)[2]["path"]))>>, table)
          THEN <<>> ELSE <<Head(questions)>>)
         \o filter_cached_labelled(table, Tail(questions))

\* lines 247-255: the questions that are not in the skip cache
RECURSIVE filter_cached(_, _)
filter_cached(table, questions) ==
    IF questions = <<>> THEN <<>>
    ELSE (IF is_pair_cached(table, path_text(Head(questions)[1]["path"]),
                            path_text(Head(questions)[2]["path"]))
          THEN <<>> ELSE <<Head(questions)>>)
         \o filter_cached(table, Tail(questions))

\* mutant of answer_effect: an abort also records the pair as skipped
answer_effect_abort_skips(ans, dup_cand, cands, skipped) ==
    IF lower(ans) = "y" THEN <<Append(cands, dup_cand), skipped, TRUE>>
    ELSE IF lower(ans) = "q"
    THEN <<cands, Append(skipped, <<path_text(dup_cand[1]["path"]),
                                     path_text(dup_cand[2]["path"])>>), FALSE>>
    ELSE <<cands, Append(skipped, <<path_text(dup_cand[1]["path"]),
                                     path_text(dup_cand[2]["path"])>>), TRUE>>

\* lines 292-302: the lists after an answer, and whether the loop goes on
answer_effect(ans, dup_cand, cands, skipped) ==
    IF lower(ans) = "y" THEN <<Append(cands, dup_cand), skipped, TRUE>>
    ELSE IF lower(ans) = "q" THEN <<cands, skipped, FALSE>>
    ELSE <<cands, Append(skipped, <<path_text(dup_cand[1]["path"]),
                                     path_text(dup_cand[2]["path"])>>), TRUE>>

\* mutant of interrupted_return: the flag is not looked at
interrupted_return_never(flag) == FALSE

\* lines 475-477: run_interactive returns at once when the flag is set
interrupted_return(flag) == flag

\* mutant of all_confirmed: a refused deletion is not reported
all_confirmed_always(rejection) == TRUE

\* line 382: exec_delete returns not has_rejection
all_confirmed(rejection) == ~rejection

\* app.py calls run_interactive in a fresh process, on a directory of three
\* files, with no cache.db yet
InitSession ==
    /\ CpIdle
    /\ PrepareNotCalled
    /\ TasksNotCalled
    /\ ScanNotCalled
    /\ CacheNotUsed
    /\ session = 1
    /\ fs = SessionFiles
    /\ ui_pc = "run_interactive"
    /\ rejected_saved = {}
    /\ SessionReset

\* the pool is gone and the locals of the scan with it
ScanIdle ==
    /\ file_infos' = <<>>
    /\ num_workers' = 1
    /\ tasks' = <<>>
    /\ futures' = <<>>
    /\ task_out' = <<>>
    /\ yielded' = {}
    /\ all_results' = <<>>
    /\ progress' = <<>>
    /\ evaluated' = <<>>
    /\ at_shutdown' = None
    /\ pc' = "idle"

\* run_interactive starts with empty locals
ResetSession ==
    /\ file_path_list' = <<>>
    /\ pending_questions' = <<>>
    /\ filtered_out' = <<>>
    /\ ask_i' = 0
    /\ dup_cand_list' = <<>>
    /\ skipped_pairs' = <<>>
    /\ ri_dup_cand_list' = <<>>
    /\ ri_skipped_pairs' = <<>>
    /\ should_save_cache' = FALSE
    /\ del_i' = 0
    /\ process_all' = FALSE
    /\ has_rejection' = FALSE
    /\ saved' = <<>>
    /\ presented' = <<>>
    /\ interrupted' = FALSE
    /\ exit_kind' = "running"
    /\ del_log' = <<>>
    /\ status' = <<>>

UiLists == <<pending_questions, filtered_out, ask_i, dup_cand_list, skipped_pairs>>
UiRun == <<ri_dup_cand_list, ri_skipped_pairs, should_save_cache>>
UiDelete == <<del_i, process_all, has_rejection, del_log>>
UiHistory == <<presented, rejected_saved, interrupted, status>>

\* run_interactive lines 468-473 and list_dup_cand lines 136-152:
\* init_cache_db() opens the session
StartSession ==
    /\ ui_pc = "run_interactive"
    /\ ui_pc' = "list_files"
    /\ db' = init_cache_db(db)
    /\ cache_call' = [op |-> "init_cache_db", args |-> <<>>, raised |-> FALSE, result |-> None]
    /\ UNCHANGED <<cache_ops, inserted, session, fs, file_path_list, UiLists, UiRun, UiDelete,
                   saved, UiHistory, exit_kind, cp_vars, prep_vars, task_vars, scan_vars>>

\* list_dup_cand returns (cands, skipped) to line 473 of run_interactive
ListReturns(cands, skipped) ==
    /\ ri_dup_cand_list' = cands
    /\ ri_skipped_pairs' = skipped
    /\ ui_pc' = "list_returned"

\* lines 153-241: the files are listed and sorted by mtime, their records
\* are computed, and unless there is nothing to compare the scan is called;
\* the time stamps have MaxMtime + 1 values, so that the latest files of a
\* listing share one
ListFiles ==
    /\ ui_pc = "list_files"
    /\ \E listing \in Listings(fs), cpu_count \in 1..MaxWorkers :
          LET infos == [k \in DOMAIN listing |->
                          PrecomputedFileInfo(listing[k][1], listing[k][2], 1,
                                              Min(k - 1, MaxMtime), k)]
              total_comparisons == count_valid_comparisons(infos)
          IN  /\ file_path_list' = [k \in DOMAIN listing |-> path_text(listing[k])]
              /\ IF shutdown_event \/ Len(infos) < 2 \/ total_comparisons = 0
                 THEN /\ ListReturns(<<>>, <<>>)
                      /\ UNCHANGED <<scan_vars>>
                 ELSE /\ ui_pc' = "scan"
                      /\ file_infos' = infos
                      /\ num_workers' = Min(cpu_count, 8)
                      /\ pc' = "call"
                      /\ UNCHANGED <<tasks, futures, task_out, yielded, all_results, progress,
                                     evaluated, shutdown_event, at_shutdown,
                                     ri_dup_cand_list, ri_skipped_pairs>>
    /\ UNCHANGED <<cache_vars, session, fs, UiLists, should_save_cache, UiDelete,
                   saved, UiHistory, exit_kind, cp_vars, prep_vars, task_vars>>

\* lines 243-279: the scan has returned; cached pairs are filtered out, and
\* the flag and the empty list end list_dup_cand
FilterCached ==
    /\ ui_pc = "scan"
    /\ pc = "returned"
    /\ LET questions == filter_cached(db.rows, all_results)
       IN  /\ pending_questions' = questions
           /\ filtered_out' = SelectSeq(all_results,
                                        LAMBDA c : \A k \in 1..Len(questions) : questions[k] # c)
           /\ IF shutdown_event THEN /\ ListReturns(dup_cand_list, <<>>)
                                     /\ ask_i' = 0
              ELSE IF questions = <<>> THEN /\ ListReturns(dup_cand_list, skipped_pairs)
                                            /\ ask_i' = 0
              ELSE /\ ui_pc' = "ask"
                   /\ ask_i' = 1
                   /\ UNCHANGED <<ri_dup_cand_list, ri_skipped_pairs>>
    /\ ScanIdle
    /\ UNCHANGED <<cache_vars, shutdown_event, session, fs, file_path_list, dup_cand_list,
                   skipped_pairs, should_save_cache, UiDelete, saved, UiHistory, exit_kind,
                   cp_vars, prep_vars, task_vars>>

\* the scan ended with the exception of a task: it passes through the
\* finally blocks of list_dup_cand and run_interactive
ScanRaised ==
    /\ ui_pc = "scan"
    /\ pc = "raised"
    /\ ui_pc' = "finally"
    /\ exit_kind' = "exception"
    /\ ScanIdle
    /\ UNCHANGED <<cache_vars, shutdown_event, session, fs, file_path_list, UiLists, UiRun,
                   UiDelete, saved, UiHistory, cp_vars, prep_vars, task_vars>>

\* lines 281-304: one iteration of the question loop
Ask(ans) ==
    /\ ui_pc = "ask"
    /\ IF shutdown_event
       THEN /\ ListReturns(dup_cand_list, skipped_pairs)
            /\ UNCHANGED <<ask_i, dup_cand_list, skipped_pairs, presented>>
       ELSE LET dup_cand == pending_questions[ask_i]
                effect == answer_effect(ans, dup_cand, dup_cand_list, skipped_pairs)
            IN  /\ presented' = Append(presented, [cand |-> dup_cand, ans |-> lower(ans)])
                /\ dup_cand_list' = effect[1]
                /\ skipped_pairs' = effect[2]
                /\ ask_i' = ask_i + 1
                /\ IF effect[3] /\ ask_i < Len(pending_questions)
                   THEN UNCHANGED <<ui_pc, ri_dup_cand_list, ri_skipped_pairs>>
                   ELSE ListReturns(effect[1], effect[2])
    /\ UNCHANGED <<cache_vars, scan_vars, session, fs, file_path_list, pending_questions,
                   filtered_out, should_save_cache, UiDelete, saved, rejected_saved,
                   interrupted, status, exit_kind, cp_vars, prep_vars, task_vars>>

\* lines 475-487: the status line printed after list_dup_cand has returned
status_after_list(flag, cands) ==
    IF flag THEN <<"interrupted">>
    ELSE IF cands # <<>> THEN <<>>
    ELSE <<"no_candidates">>

\* mutant of should_delete: "a" only applies to the pairs that follow
should_delete_later(all, ans) == all \/ ans = "y"

\* exec_delete lines 360-365: whether the newer file is moved
should_delete(all, ans) == all \/ ans \in {"y", "a"}

\* lines 475-487 of run_interactive, and lines 334-348 of exec_delete
AfterList ==
    /\ ui_pc = "list_returned"
    /\ status' = status \o status_after_list(shutdown_event, ri_dup_cand_list)
    /\ IF interrupted_return(shutdown_event)
       THEN /\ ui_pc' = "finally"
            /\ exit_kind' = "interrupted"
            /\ UNCHANGED <<should_save_cache, del_i>>
       ELSE IF ri_dup_cand_list # <<>>
       THEN /\ ui_pc' = "delete"
            /\ del_i' = 1
            /\ UNCHANGED <<should_save_cache, exit_kind>>
       ELSE /\ ui_pc' = "finally"
            /\ should_save_cache' = TRUE
            /\ exit_kind' = "returned"
            /\ UNCHANGED del_i
    /\ UNCHANGED <<cache_vars, scan_vars, session, fs, file_path_list, UiLists,
                   ri_dup_cand_list, ri_skipped_pairs, process_all, has_rejection, del_log,
                   saved, presented, rejected_saved, interrupted, cp_vars, prep_vars, task_vars>>

\* mutant of DeleteStep: a file that is not found ends the loop
DeleteStep_aborting(ans) ==
    /\ ui_pc = "delete"
    /\ LET dup_cand == ri_dup_cand_list[del_i]
           src_path == dup_cand[2]["path"]
           existed == src_path \in fs
           asked == existed /\ ~process_all
           moving == existed /\ should_delete(process_all, ans)
           rejection == has_rejection \/ (asked /\ ans = "n")
       IN  /\ asked \/ ans = ""
           /\ process_all' = (process_all \/ (asked /\ ans = "a"))
           /\ has_rejection' = rejection
           /\ fs' = IF moving THEN fs \ {src_path} ELSE fs
           /\ del_log' = Append(del_log, [cand |-> dup_cand, existed |-> existed,
                                          reported |-> ~existed, prompted |-> asked,
                                          ans |-> ans,
                                          moved |-> fs \ fs'])
           /\ del_i' = del_i + 1
           /\ IF del_i < Len(ri_dup_cand_list) /\ existed
              THEN UNCHANGED <<ui_pc, should_save_cache, exit_kind, status>>
              ELSE /\ ui_pc' = "finally"
                   /\ should_save_cache' = all_confirmed(rejection)
                   /\ exit_kind' = "returned"
                   /\ status' = Append(status, "completed")
    /\ UNCHANGED <<cache_vars, scan_vars, session, file_path_list, UiLists, ri_dup_cand_list,
                   ri_skipped_pairs, saved, presented, rejected_saved, interrupted, cp_vars, prep_vars, task_vars>>

\* exec_delete lines 350-382: one iteration of the deletion loop; after the
\* last one exec_delete returns and line 484 sets should_save_cache
DeleteStep(ans) ==
    /\ ui_pc = "delete"
    /\ LET dup_cand == ri_dup_cand_list[del_i]
           src_path == dup_cand[2]["path"]
           existed == src_path \in fs
           asked == existed /\ ~process_all
           moving == existed /\ should_delete(process_all, ans)
           rejection == has_rejection \/ (asked /\ ans = "n")
       IN  /\ asked \/ ans = ""
           /\ process_all' = (process_all \/ (asked /\ ans = "a"))
           /\ has_rejection' = rejection
           /\ fs' = IF moving THEN fs \ {src_path} ELSE fs
           /\ del_log' = Append(del_log, [cand |-> dup_cand, existed |-> existed,
                                          reported |-> ~existed, prompted |-> asked,
                                          ans |-> ans,
                                          moved |-> fs \ fs'])
           /\ del_i' = del_i + 1
           /\ IF del_i < Len(ri_dup_cand_list)
              THEN UNCHANGED <<ui_pc, should_save_cache, exit_kind, status>>
              ELSE /\ ui_pc' = "finally"
                   /\ should_save_cache' = all_confirmed(rejection)
                   /\ exit_kind' = "returned"
                   /\ status' = Append(status, "completed")
    /\ UNCHANGED <<cache_vars, scan_vars, session, file_path_list, UiLists, ri_dup_cand_list,
                   ri_skipped_pairs, saved, presented, rejected_saved, interrupted, cp_vars, prep_vars, task_vars>>

\* another process removes a file of the directory while the deletion
\* phase runs: line 356 finds out at the file's turn
Vanish(file) ==
    /\ ui_pc = "delete"
    /\ file \in fs
    /\ fs' = fs \ {file}
    /\ UNCHANGED <<cache_vars, scan_vars, session, ui_pc, file_path_list, UiLists, UiRun,
                   UiDelete, saved, UiHistory, exit_kind, cp_vars, prep_vars, task_vars>>

\* input() raises EOFError at a prompt of the question loop or of the
\* deletion loop: no handler catches it, and it passes through the finally
\* blocks of list_dup_cand and run_interactive
PromptEOF ==
    /\ \/ ui_pc = "ask" /\ ~shutdown_event
       \/ ui_pc = "delete" /\ ~process_all /\ ri_dup_cand_list[del_i][2]["path"] \in fs
    /\ ui_pc' = "finally"
    /\ exit_kind' = "exception"
    /\ UNCHANGED <<cache_vars, scan_vars, session, fs, file_path_list, UiLists, UiRun,
                   UiDelete, saved, UiHistory, cp_vars, prep_vars, task_vars>>

\* Ctrl-C inside the try block of list_dup_cand (lines 236-310):
\* handle_interrupt asks; on "y" (or a second Ctrl-C) the flag is set and
\* list_dup_cand returns its lists, otherwise the interrupt is raised again
InterruptList(stop) ==
    /\ ui_pc \in {"scan", "ask"}
    /\ interrupted' = TRUE
    /\ IF stop
       THEN /\ shutdown_event' = TRUE
            /\ ListReturns(dup_cand_list, skipped_pairs)
       ELSE /\ ui_pc' = "except"
            /\ UNCHANGED <<shutdown_event, ri_dup_cand_list, ri_skipped_pairs>>
    /\ ScanIdle
    /\ UNCHANGED <<cache_vars, session, fs, file_path_list, UiLists, should_save_cache,
                   UiDelete, saved, presented, rejected_saved, status, exit_kind, cp_vars, prep_vars, task_vars>>

\* Ctrl-C elsewhere in the try block of run_interactive: while the files
\* are listed, between list_dup_cand and exec_delete, or inside exec_delete
InterruptRun ==
    /\ ui_pc \in {"list_files", "list_returned", "delete"}
    /\ interrupted' = TRUE
    /\ ui_pc' = "except"
    /\ UNCHANGED <<cache_vars, scan_vars, session, fs, file_path_list, UiLists, UiRun,
                   UiDelete, saved, presented, rejected_saved, status, exit_kind, cp_vars, prep_vars, task_vars>>

\* lines 489-492: handle_interrupt in run_interactive; "y" sets the flag
\* and leaves with sys.exit(130), otherwise the interrupt is dropped
ExceptRun(stop) ==
    /\ ui_pc = "except"
    /\ ui_pc' = "finally"
    /\ shutdown_event' = (shutdown_event \/ stop)
    /\ exit_kind' = IF stop THEN "exit 130" ELSE "interrupt dropped"
    /\ status' = IF stop THEN Append(status, "interrupted") ELSE status
    /\ UNCHANGED <<cache_vars, file_infos, num_workers, tasks, futures, task_out, yielded,
                   all_results, progress, evaluated, at_shutdown, pc, session, fs,
                   file_path_list, UiLists, UiRun, UiDelete, saved, presented,
                   rejected_saved, interrupted, cp_vars, prep_vars, task_vars>>

\* lines 493-501: the finally block of run_interactive
Finally ==
    /\ ui_pc = "finally"
    /\ ui_pc' = "ended"
    /\ IF should_save_cache /\ ri_skipped_pairs # <<>>
       THEN /\ db' = [db EXCEPT !.rows = cache_pairs_bulk(db.rows, ri_skipped_pairs)]
            /\ cache_call' = [op |-> "cache_pairs_bulk", args |-> ri_skipped_pairs,
                              raised |-> FALSE, result |-> Len(ri_skipped_pairs)]
            /\ inserted' = inserted \cup FilePairsOf(ri_skipped_pairs)
            /\ saved' = Append(saved, ri_skipped_pairs)
       ELSE UNCHANGED <<db, cache_call, inserted, saved>>
    /\ UNCHANGED <<cache_ops, scan_vars, session, fs, file_path_list, UiLists, UiRun,
                   UiDelete, UiHistory, exit_kind, cp_vars, prep_vars, task_vars>>

\* the program is run again on the same directory: a new process, the same
\* cache.db, the files that are left
NewSession ==
    /\ ui_pc = "ended"
    /\ session < MaxSessions
    /\ session' = session + 1
    /\ ui_pc' = "run_interactive"
    /\ shutdown_event' = FALSE
    /\ rejected_saved' = rejected_saved
                          \cup UNION {{saved[k][n] : n \in DOMAIN saved[k]} : k \in DOMAIN saved}
    /\ UNCHANGED <<cache_vars, fs, cp_vars, prep_vars, task_vars>>
    /\ ScanIdle
    /\ ResetSession

NextSession ==
    \/ StartSession
    \/ ListFiles
    \/ Submit
    \/ WorkerStart
    \/ \E t \in TaskIds : WorkerFinish(t)
    \/ \E t \in TaskIds : WorkerFail(t)
    \/ \E t \in TaskIds : Collect(t)
    \/ LoopEnd
    \/ ExitWith
    \/ FilterCached
    \/ ScanRaised
    \/ \E ans \in Answers : Ask(ans)
    \/ AfterList
    \/ \E ans \in DeleteAnswers : DeleteStep(ans)
    \/ \E file \in SessionFiles : Vanish(file)
    \/ PromptEOF
    \/ \E stop \in BOOLEAN : InterruptList(stop)
    \/ InterruptRun
    \/ \E stop \in BOOLEAN : ExceptRun(stop)
    \/ Finally
    \/ NewSession

SpecSession == InitSession /\ [][NextSession]_vars

(***************************************************************************)
(* core.py: list_files and precompute_file_info, as list_dup_cand calls    *)
(* them (ui.py lines 159-183). One step is one iteration of a loop; the    *)
(* flag is set between iterations (by a callback or another thread).       *)
(***************************************************************************)
\* the k-th entry of a directory: a file, a hidden file, or an entry on
\* which is_file() raises OSError
DirEntry(k, kind) ==
    LET digit == <<"1", "2", "3", "4">>[k]
    IN  [name |-> IF kind = "hidden" THEN <<".", digit>> ELSE <<"a", digit>>,
         is_file |-> IF kind = "oserror" THEN "oserror" ELSE "yes"]

\* the directory trees walked: the root with up to MaxDirFiles entries and
\* one subdirectory, hidden or not, with one file
Walks ==
    {<<[root |-> "d", hidden |-> FALSE, files |-> [k \in 1..n |-> DirEntry(k, kinds[k])]],
       [root |-> "s", hidden |-> h, files |-> <<DirEntry(MaxDirFiles + 1, "file")>>]>> :
        n \in 0..MaxDirFiles,
        kinds \in [1..MaxDirFiles -> {"file", "hidden", "oserror"}],
        h \in BOOLEAN}

InitPrepare ==
    /\ CpIdle
    /\ ScanNotCalled
    /\ CacheNotUsed
    /\ TasksNotCalled
    /\ session = 0 /\ fs = {} /\ ui_pc = "idle" /\ rejected_saved = {} /\ SessionReset
    /\ walk \in Walks
    /\ prep_pc = "list_files"
    /\ lf_d = 1
    /\ lf_f = 0
    /\ lf_file_path_list = <<>>
    /\ lf_callbacks = 0
    /\ pre_input = <<>>
    /\ pre_i = 0
    /\ pre_result = <<>>
    /\ pre_callbacks = 0
    /\ pre_stat = <<>>
    /\ prep_at_shutdown = None

\* everything but the preparation state and the flag
NotPrepare ==
    <<file_infos, num_workers, tasks, futures, task_out, yielded, all_results, progress,
      evaluated, at_shutdown, pc, cp_vars, cache_vars, ui_vars, task_vars>>

\* the directory after position d that os.walk yields next: hidden
\* subdirectories are pruned at line 360
RECURSIVE next_dir(_, _)
next_dir(w, d) ==
    IF d > Len(w) THEN d
    ELSE IF d > 1 /\ w[d].hidden THEN next_dir(w, d + 1)
    ELSE d

\* list_files lines 358-363: the outer loop; os.walk yields the next
\* directory, or the loop ends and list_files returns
ListDir ==
    /\ prep_pc = "list_files"
    /\ lf_f = 0
    /\ LET d == next_dir(walk, lf_d)
       IN  IF d > Len(walk) \/ shutdown_event
           THEN /\ prep_pc' = "listed"
                /\ UNCHANGED <<lf_d, lf_f>>
           ELSE /\ lf_d' = IF walk[d].files = <<>> THEN d + 1 ELSE d
                /\ lf_f' = IF walk[d].files = <<>> THEN 0 ELSE 1
                /\ UNCHANGED prep_pc
    /\ UNCHANGED <<walk, lf_file_path_list, lf_callbacks, pre_input, pre_i, pre_result,
                   pre_callbacks, pre_stat, prep_at_shutdown, shutdown_event, NotPrepare>>

\* mutant of ListFile: the inner loop does not poll the flag
ListFile_unpolled ==
    /\ prep_pc = "list_files"
    /\ lf_f > 0
    /\ LET dir == walk[lf_d]
           entry == dir.files[lf_f]
           found == entry.name[1] # "." /\ entry.is_file = "yes"
       IN  /\ lf_file_path_list' = IF found
                                       THEN Append(lf_file_path_list, <<dir.root, entry.name>>)
                                       ELSE lf_file_path_list
           /\ lf_callbacks' = IF found THEN lf_callbacks + 1 ELSE lf_callbacks
           /\ IF lf_f < Len(dir.files)
              THEN lf_f' = lf_f + 1 /\ UNCHANGED lf_d
              ELSE lf_f' = 0 /\ lf_d' = lf_d + 1
    /\ UNCHANGED <<walk, prep_pc, pre_input, pre_i, pre_result, pre_callbacks, pre_stat,
                   prep_at_shutdown, shutdown_event, NotPrepare>>

\* list_files lines 364-374: one iteration of the inner loop
ListFile ==
    /\ prep_pc = "list_files"
    /\ lf_f > 0
    /\ LET dir == walk[lf_d]
           entry == dir.files[lf_f]
           found == entry.name[1] # "." /\ entry.is_file = "yes"
       IN  IF shutdown_event
           THEN /\ lf_f' = 0
                /\ lf_d' = lf_d + 1
                /\ UNCHANGED <<lf_file_path_list, lf_callbacks>>
           ELSE /\ lf_file_path_list' = IF found
                                            THEN Append(lf_file_path_list, <<dir.root, entry.name>>)
                                            ELSE lf_file_path_list
                /\ lf_callbacks' = IF found THEN lf_callbacks + 1 ELSE lf_callbacks
                /\ IF lf_f < Len(dir.files)
                   THEN lf_f' = lf_f + 1 /\ UNCHANGED lf_d
                   ELSE lf_f' = 0 /\ lf_d' = lf_d + 1
    /\ UNCHANGED <<walk, prep_pc, pre_input, pre_i, pre_result, pre_callbacks, pre_stat,
                   prep_at_shutdown, shutdown_event, NotPrepare>>

\* ui.py lines 159-183: list_files has returned; with the flag set
\* list_dup_cand returns ([], []), otherwise the list is sorted by mtime and
\* precompute_file_info is called
AfterListing ==
    /\ prep_pc = "listed"
    /\ IF shutdown_event
       THEN /\ prep_pc' = "cancelled"
            /\ UNCHANGED <<pre_input, pre_i>>
       ELSE /\ prep_pc' = "precompute"
            /\ pre_input' \in Listings({lf_file_path_list[k] : k \in DOMAIN lf_file_path_list})
            /\ pre_i' = 1
    /\ UNCHANGED <<walk, lf_d, lf_f, lf_file_path_list, lf_callbacks, pre_result,
                   pre_callbacks, pre_stat, prep_at_shutdown, shutdown_event, NotPrepare>>

\* mutant of PrecomputeStep: the callback is only called for a record
PrecomputeStep_counting_records ==
    /\ prep_pc = "precompute"
    /\ IF pre_i > Len(pre_input) \/ shutdown_event
       THEN /\ prep_pc' = "precomputed"
            /\ UNCHANGED <<pre_i, pre_result, pre_callbacks, pre_stat>>
       ELSE \E ok \in BOOLEAN :
               LET path == pre_input[pre_i]
               IN  /\ pre_result' =
                         IF ok THEN Append(pre_result,
                                           PrecomputedFileInfo(path[1], path[2], 1,
                                                               Min(pre_i - 1, MaxMtime), pre_i))
                         ELSE pre_result
                   /\ pre_stat' = Append(pre_stat, ok)
                   /\ pre_callbacks' = IF ok THEN pre_callbacks + 1 ELSE pre_callbacks
                   /\ pre_i' = pre_i + 1
                   /\ UNCHANGED prep_pc
    /\ UNCHANGED <<walk, lf_d, lf_f, lf_file_path_list, lf_callbacks, pre_input,
                   prep_at_shutdown, shutdown_event, NotPrepare>>

\* precompute_file_info lines 48-73: one iteration of the loop, or its end;
\* stat() succeeds or raises OSError
PrecomputeStep ==
    /\ prep_pc = "precompute"
    /\ IF pre_i > Len(pre_input) \/ shutdown_event
       THEN /\ prep_pc' = "precomputed"
            /\ UNCHANGED <<pre_i, pre_result, pre_callbacks, pre_stat>>
       ELSE \E ok \in BOOLEAN :
               LET path == pre_input[pre_i]
               IN  /\ pre_result' =
                         IF ok THEN Append(pre_result,
                                           PrecomputedFileInfo(path[1], path[2], 1,
                                                               Min(pre_i - 1, MaxMtime), pre_i))
                         ELSE pre_result
                   /\ pre_stat' = Append(pre_stat, ok)
                   /\ pre_callbacks' = pre_callbacks + 1
                   /\ pre_i' = pre_i + 1
                   /\ UNCHANGED prep_pc
    /\ UNCHANGED <<walk, lf_d, lf_f, lf_file_path_list, lf_callbacks, pre_input,
                   prep_at_shutdown, shutdown_event, NotPrepare>>

\* shutdown_event.set() while the files are listed or their records built
SetShutdownPrepare ==
    /\ prep_pc \in {"list_files", "listed", "precompute"}
    /\ ~shutdown_event
    /\ shutdown_event' = TRUE
    /\ prep_at_shutdown' = [pc |-> prep_pc, listed |-> lf_file_path_list,
                            lf_callbacks |-> lf_callbacks, result |-> pre_result,
                            pre_callbacks |-> pre_callbacks]
    /\ UNCHANGED <<walk, prep_pc, lf_d, lf_f, lf_file_path_list, lf_callbacks, pre_input,
                   pre_i, pre_result, pre_callbacks, pre_stat, NotPrepare>>

SpecPrepare ==
    InitPrepare /\ [][ListDir \/ ListFile \/ AfterListing \/ PrecomputeStep
                         \/ SetShutdownPrepare]_vars

(***************************************************************************)
(* core.py lines 295-312: the task sizing loop, one iteration per step.    *)
(***************************************************************************)
\* the numbers of records are the small ones, and one large enough for the
\* cap of max_comparisons_per_task to apply
InitTasks ==
    /\ CpIdle
    /\ ScanNotCalled
    /\ CacheNotUsed
    /\ PrepareNotCalled
    /\ session = 0 /\ fs = {} /\ ui_pc = "idle" /\ rejected_saved = {} /\ SessionReset
    /\ tk_n \in (2..MaxTaskN) \cup {LargeN}
    /\ tk_workers \in 1..MaxWorkers
    /\ tk_pc = "loop"
    /\ tk_i = 0
    /\ tk_current_start = 0
    /\ tk_current_count = 0
    /\ tk_len = 0
    /\ tk_last = None

\* lines 307-312: one iteration of the loop over the start indices
TaskLoop ==
    /\ tk_pc = "loop"
    /\ tk_i < tk_n - 1
    /\ LET count == tk_current_count + (tk_n - 1 - tk_i)
       IN  IF count >= target_per_task(tk_n, tk_workers) \/ tk_i = tk_n - 2
           THEN /\ tk_len' = tk_len + 1
                /\ tk_last' = <<tk_current_start, tk_i + 1>>
                /\ tk_current_start' = tk_i + 1
                /\ tk_current_count' = 0
           ELSE /\ tk_current_count' = count
                /\ UNCHANGED <<tk_len, tk_last, tk_current_start>>
    /\ tk_i' = tk_i + 1
    /\ UNCHANGED <<tk_n, tk_workers, tk_pc, cp_vars, scan_vars, cache_vars, ui_vars, prep_vars>>

\* lines 314-315: the loop has ended with its tasks
TaskLoopEnd ==
    /\ tk_pc = "loop"
    /\ tk_i >= tk_n - 1
    /\ tk_pc' = "done"
    /\ tk_len' = IF tk_len = 0 THEN 1 ELSE tk_len
    /\ tk_last' = IF tk_len = 0 THEN <<0, tk_n - 1>> ELSE tk_last
    /\ UNCHANGED <<tk_n, tk_workers, tk_i, tk_current_start, tk_current_count, cp_vars,
                   scan_vars, cache_vars, ui_vars, prep_vars>>

SpecTasks == InitTasks /\ [][TaskLoop \/ TaskLoopEnd]_vars


(***************************************************************************)
(* The claims' vocabulary for digit runs, stated on the names alone.       *)
(***************************************************************************)
\* the maximal runs of digits of a name, as half-open ranges <<s, e>>
DigitRuns(name) ==
    {r \in (0..Len(name)) \X (0..Len(name)) :
        /\ r[1] < r[2]
        /\ \A k \in (r[1] + 1)..r[2] : isdigit(name[k])
        /\ (r[1] = 0 \/ ~isdigit(name[r[1]]))
        /\ (r[2] = Len(name) \/ ~isdigit(name[r[2] + 1]))}

\* the digit runs overlapping the segment [lo, hi) of a name; for the empty
\* side of an insert or delete, the run at the insertion point
RunsOverlapping(name, lo, hi) ==
    IF lo = hi THEN {r \in DigitRuns(name) : r[1] <= lo /\ lo <= r[2]}
    ELSE {r \in DigitRuns(name) : r[1] < hi /\ lo < r[2]}

\* the segment [lo, hi) lies in a digit run of more than two digits
LiesInLongRun(name, lo, hi) ==
    \E r \in DigitRuns(name) : r[1] <= lo /\ hi <= r[2] /\ r[2] - r[1] > 2

\* the differing segments of the alignment of the two original names
DiffSegments(name1, name2) ==
    LET ops == get_opcodes(name1, name2)
    IN  {ops[n] : n \in {k \in 1..Len(ops) : ops[k].tag # "equal"}}

\* a differing segment with a digit on each side it has text on
DigitSegment(name1, name2, op) ==
    /\ (op.tag \in {"replace", "delete"} => AnyDigit(Slice(name1, op.i1, op.i2)))
    /\ (op.tag \in {"replace", "insert"} => AnyDigit(Slice(name2, op.j1, op.j2)))

\* ... whose digit runs are at most two digits long in both names
ShortDigitSegment(name1, name2, op) ==
    /\ DigitSegment(name1, name2, op)
    /\ \A r \in RunsOverlapping(name1, op.i1, op.i2) : r[2] - r[1] <= 2
    /\ \A r \in RunsOverlapping(name2, op.j1, op.j2) : r[2] - r[1] <= 2

C6_LongRunsNotEpisode ==
    (ep_called /\ ep_result # FALSE)
    => ~\A op \in DiffSegments(cp_info1.name, cp_info2.name) :
           (AnyDigit(Slice(cp_info1.name, op.i1, op.i2)) \/ AnyDigit(Slice(cp_info2.name, op.j1, op.j2)))
           => (LiesInLongRun(cp_info1.name, op.i1, op.i2) \/ LiesInLongRun(cp_info2.name, op.j1, op.j2))

\* C6 witness: two names that differ in a digit of a three-digit run, not
\* rejected by the episode rule and accepted as a candidate
C6_Witness ==
    /\ ep_called /\ cp_called
    /\ ep_result = FALSE
    /\ cp_line = 223
    /\ \E op \in DiffSegments(cp_info1.name, cp_info2.name) :
          /\ op.tag = "replace"
          /\ DigitSegment(cp_info1.name, cp_info2.name, op)
          /\ LiesInLongRun(cp_info1.name, op.i1, op.i2)
    /\ \A op \in DiffSegments(cp_info1.name, cp_info2.name) :
          (AnyDigit(Slice(cp_info1.name, op.i1, op.i2)) \/ AnyDigit(Slice(cp_info2.name, op.j1, op.j2)))
          => (LiesInLongRun(cp_info1.name, op.i1, op.i2) \/ LiesInLongRun(cp_info2.name, op.j1, op.j2))

(***************************************************************************)
(* Claims about find_dup_candidates_parallel.                              *)
(***************************************************************************)
\* the unordered pairs of records, as index pairs i < j
IndexPairs == {p \in (0..(Len(file_infos) - 1)) \X (0..(Len(file_infos) - 1)) : p[1] < p[2]}
SharedDir(p) == file_infos[p[1] + 1].dir_path = file_infos[p[2] + 1].dir_path
Verdict(p) == compare_pair(file_infos[p[1] + 1], file_infos[p[2] + 1], MATCH_TH)

\* the call returned, was not cancelled and no task failed
CleanReturn ==
    /\ pc = "returned"
    /\ Len(file_infos) >= 2
    /\ ~shutdown_event
    /\ InState("failed") = {}

\* C1: in a run that is neither cancelled nor hit by a worker failure, each
\* pair i < j of records sharing dir_path is evaluated by the predicate
\* exactly once across all tasks, and the returned list holds exactly the
\* pairs the predicate accepts, each once.
C1_ExhaustiveOnce ==
    CleanReturn
    => /\ \A p \in IndexPairs : SharedDir(p) => evaluated[p] = 1
       /\ \A p \in IndexPairs :
             (SharedDir(p) /\ Verdict(p) # None) => Occurrences(all_results, Verdict(p)) = 1
       /\ Len(all_results) = Cardinality({p \in IndexPairs : SharedDir(p) /\ Verdict(p) # None})

\* C1 witness: a clean return over several tasks with an accepted and a
\* rejected pair of one directory
C1_Witness ==
    /\ CleanReturn
    /\ Len(tasks) >= 2
    /\ all_results # <<>>
    /\ \E p \in IndexPairs : SharedDir(p) /\ Verdict(p) = None

\* C2: every candidate returned is a pair of records of one directory; no
\* pair of records of different directories is ever evaluated, counted as a
\* valid comparison or returned, even if the names are identical.
C2_SameDirectoryOnly ==
    /\ \A k \in 1..Len(all_results) : all_results[k][1].path[1] = all_results[k][2].path[1]
    /\ \A p \in DOMAIN evaluated : (p \in IndexPairs /\ ~SharedDir(p)) => evaluated[p] = 0
    /\ \A t \in DOMAIN futures :
          futures[t] = "finished"
          => /\ \A k \in 1..Len(task_out[t][1]) :
                   task_out[t][1][k][1].path[1] = task_out[t][1][k][2].path[1]
             /\ task_out[t][2] =
                   Cardinality({p \in IndexPairs :
                                   /\ tasks[t][1] <= p[1]
                                   /\ p[1] < tasks[t][2]
                                   /\ SharedDir(p)})

\* C2 witness: a scan has returned candidates although two files of
\* different directories carry the same name
C2_Witness ==
    /\ pc = "returned"
    /\ all_results # <<>>
    /\ \E p \in IndexPairs :
          /\ ~SharedDir(p)
          /\ file_infos[p[1] + 1].name = file_infos[p[2] + 1].name

(***************************************************************************)
(* Claims about compare_pair.                                              *)
(***************************************************************************)
\* C3: for every candidate pair produced by compare_pair, whatever the
\* argument order, older.mtime <= newer.mtime.
C3_OlderNotAfterNewer ==
    /\ (cp_called /\ cp_result # None) => cp_result[1].mtime <= cp_result[2].mtime
    /\ (cp_swapped_called /\ cp_swapped_result # None)
       => cp_swapped_result[1].mtime <= cp_swapped_result[2].mtime

\* C3 witness: a candidate whose first argument was the newer file
C3_Witness ==
    /\ cp_called
    /\ cp_result # None
    /\ cp_info1.mtime > cp_info2.mtime
    /\ cp_result[1].path = cp_info2.path
    /\ cp_result[2].path = cp_info1.path

\* C4: compare_pair is symmetric: compare_pair(a, b, T) is a rejection
\* exactly when compare_pair(b, a, T) is, and when both accept they name the
\* same file older and the same file newer.
C4_Symmetric ==
    (cp_called /\ cp_swapped_called)
    => /\ (cp_result = None) <=> (cp_swapped_result = None)
       /\ (cp_result # None /\ cp_swapped_result # None)
          => /\ cp_result[1].path = cp_swapped_result[1].path
             /\ cp_result[2].path = cp_swapped_result[2].path

\* a replace segment with one broadcast marker on one side and the other
\* marker on the other side
MarkerSegment(name1, name2, op) ==
    LET s1 == Slice(name1, op.i1, op.i2)
        s2 == Slice(name2, op.j1, op.j2)
        Has(c, t) == c \in {t[k] : k \in 1..Len(t)}
    IN  /\ op.tag = "replace"
        /\ \/ Has(ZEN, s1) /\ Has(GO, s2)
           \/ Has(GO, s1) /\ Has(ZEN, s2)

\* C7: every pair whose original-name alignment has a replace segment with
\* the prior-part glyph on one side and the latter-part glyph on the other
\* is rejected by compare_pair, whatever its score, sizes and times.
C7_MarkerRejected ==
    (cp_called /\ cp_result # None)
    => ~\E op \in DiffSegments(cp_info1.name, cp_info2.name) :
           MarkerSegment(cp_info1.name, cp_info2.name, op)

\* C7 witness: a pair that passed both similarity filters and was rejected
\* by the marker rule, latter-part glyph in the first name
C7_Witness ==
    /\ cp_called
    /\ cp_line = 202
    /\ \E op \in DiffSegments(cp_info1.name, cp_info2.name) :
          /\ MarkerSegment(cp_info1.name, cp_info2.name, op)
          /\ GO \in {cp_info1.name[k] : k \in (op.i1 + 1)..op.i2}

\* the size filter was reached: every earlier filter let the pair through
ReachedSizeFilter == cp_called /\ cp_line \in {213, 223}

SizeDiff == Abs(cp_info1.size - cp_info2.size)
MaxOfSizes == Max(cp_info1.size, cp_info2.size)

\* C8 as stated: a difference of exactly 40% of the larger size passes the
\* size filter, a difference just above 40% is rejected.
C8_ExactlyFortyPasses ==
    ReachedSizeFilter
    => /\ (MaxOfSizes > 0 /\ 100 * SizeDiff = 40 * MaxOfSizes) => cp_line = 223
       /\ ({cp_info1.size, cp_info2.size} = {1000, 599}) => cp_line = 213

\* C8 amended: a difference of exactly 40% of the larger size (1000 and 600)
\* is rejected by the size filter, as is one just above 40% (1000 and 599);
\* a difference just under 40% (1000 and 601) passes.
C8_ExactlyFortyRejected ==
    ReachedSizeFilter
    => /\ (MaxOfSizes > 0 /\ 100 * SizeDiff = 40 * MaxOfSizes) => cp_line = 213
       /\ ({cp_info1.size, cp_info2.size} = {1000, 599}) => cp_line = 213
       /\ ({cp_info1.size, cp_info2.size} = {1000, 601}) => cp_line = 223

\* C8 witness: sizes 1000 and 600 reach the size filter and are rejected by it
C8_Witness ==
    /\ cp_called
    /\ cp_info1.size = 1000
    /\ cp_info2.size = 600
    /\ cp_line = 213
    /\ cp_result = None

\* C9: the size filter rejects exactly when the larger size is positive and
\* 100 * |size1 - size2| / max(size1, size2) >= 40; two sizes of 0 are never
\* rejected by it.
C9_SizeFilterExact ==
    /\ ReachedSizeFilter
       => (cp_line = 213 <=> (MaxOfSizes > 0 /\ 100 * SizeDiff >= 40 * MaxOfSizes))
    /\ (cp_called /\ cp_info1.size = 0 /\ cp_info2.size = 0) => cp_line # 213

\* C9 witness: two empty files become a candidate
C9_Witness ==
    /\ cp_called
    /\ cp_info1.size = 0
    /\ cp_info2.size = 0
    /\ cp_line = 223
    /\ cp_result # None

\* C10: with both normalized names non-empty the prefilter rejects exactly
\* when min(len1, len2) / max(len1, len2) < 0.5 (4 and 8 pass, 4 and 9 are
\* rejected); with an empty normalized name it is skipped.
C10_LengthPrefilter ==
    cp_called
    => LET len1 == Len(cp_info1.normalized)
           len2 == Len(cp_info2.normalized)
       IN  /\ (len1 > 0 /\ len2 > 0)
              => (cp_line = 191 <=> 2 * Min(len1, len2) < Max(len1, len2))
           /\ (len1 = 0 \/ len2 = 0) => cp_line # 191
           /\ ({len1, len2} = {4, 8}) => cp_line # 191
           /\ ({len1, len2} = {4, 9}) => cp_line = 191

\* C10 witness: lengths 4 and 8 pass the prefilter and, under the laxer
\* threshold, the pair becomes a candidate
C10_Witness ==
    /\ cp_called
    /\ Len(cp_info1.normalized) = 4
    /\ Len(cp_info2.normalized) = 8
    /\ cp_line = 223

\* lengths 4 and 9 are rejected by the prefilter
C10_WitnessRejected ==
    /\ cp_called
    /\ Len(cp_info1.normalized) = 4
    /\ Len(cp_info2.normalized) = 9
    /\ cp_line = 191

(***************************************************************************)
(* Claims about cancellation and task failure in                           *)
(* find_dup_candidates_parallel.                                           *)
(***************************************************************************)
\* the scan returned a list after the cancellation flag had been set
ReturnedCancelled == pc = "returned" /\ at_shutdown # None

IsPrefix(s, t) == Len(s) <= Len(t) /\ \A k \in 1..Len(s) : s[k] = t[k]

\* C12 as stated: when the cancellation flag is set while comparison tasks
\* are in flight, the scan returns early and the list it returns contains the
\* candidates of every task that had already completed when the flag was set.
C12_CompletedKept ==
    ReturnedCancelled
    => \A t \in at_shutdown.finished :
          \A k \in 1..Len(task_out[t][1]) : Occurrences(all_results, task_out[t][1][k]) >= 1

\* C12 as amended: a scan cancelled in flight returns the list it had
\* aggregated when the flag was set: the candidates of every task the
\* completion loop had already collected are kept, in order, and a task that
\* had finished but was not yet collected contributes nothing.
C12_AggregatedKept ==
    ReturnedCancelled
    => /\ IsPrefix(at_shutdown.results, all_results)
       /\ Len(all_results) = Len(at_shutdown.results)

\* C12 witness: a cancelled scan has returned a non-empty list while a task
\* that had finished with candidates when the flag was set was left out
C12_Witness ==
    /\ ReturnedCancelled
    /\ all_results # <<>>
    /\ \E t \in at_shutdown.finished :
          \E k \in 1..Len(task_out[t][1]) : Occurrences(all_results, task_out[t][1][k]) = 0

\* C13 as stated: if any comparison task fails, the scan terminates with
\* that error; the scheduler never returns a candidate list while a task
\* has failed.
C13_FailureNeverReturned ==
    pc = "returned" => InState("failed") = {}

\* C13 as amended: in a scan that is not cancelled, a failed task makes the
\* scan end with the error and no list is returned; only a scan whose
\* cancellation flag is set returns a (partial) list although a task failed.
C13_FailureRaisedUnlessCancelled ==
    /\ (pc = "returned" /\ InState("failed") # {}) => shutdown_event
    /\ (pc \in {"raising", "raised"}) => (\E t \in yielded : futures[t] = "failed")
    /\ (~shutdown_event /\ pc \in {"exit", "returned"}) => InState("failed") = {}

\* C13 witness: the scan ended with the error of a failed task after it had
\* already aggregated candidates of another task
C13_Witness ==
    /\ pc = "raised"
    /\ ~shutdown_event
    /\ all_results # <<>>
    /\ InState("failed") # {}

(***************************************************************************)
(* Claims about the skip cache.                                            *)
(***************************************************************************)
\* C15: after any sequence of cache operations is_pair_cached(A, B) equals
\* is_pair_cached(B, A) for all paths A and B, and inserting (A, B) makes
\* is_pair_cached(B, A) true.
C15_CacheSymmetric ==
    db.exists
    => /\ \A p \in CachePairs :
             is_pair_cached(db.rows, p[1], p[2]) = is_pair_cached(db.rows, p[2], p[1])
       /\ (cache_call.op = "is_pair_cached" /\ ~cache_call.raised)
             => cache_call.result = is_pair_cached(db.rows, cache_call.args[2], cache_call.args[1])
       /\ (cache_call.op = "cache_pair" /\ ~cache_call.raised)
             => is_pair_cached(db.rows, cache_call.args[2], cache_call.args[1])

\* C15 witness: two different files were inserted with the greater path
\* first
C15_Witness ==
    /\ cache_call.op = "cache_pair"
    /\ ~cache_call.raised
    /\ str_lt(normalize_path(cache_call.args[2]), normalize_path(cache_call.args[1]))
    /\ is_pair_cached(db.rows, cache_call.args[2], cache_call.args[1])

\* C16: inserting a pair that is already stored, in either argument order,
\* by point insert or inside a bulk insert, leaves the stored count
\* unchanged: the count always equals the number of distinct unordered pairs
\* of files inserted since the last clear.
C16_CountDistinctPairs ==
    /\ db.exists => get_cached_count(db.rows) = Cardinality(inserted)
    /\ (cache_call.op = "get_cached_count" /\ ~cache_call.raised)
          => cache_call.result = Cardinality(inserted)

\* C16 witness: one bulk insert carried the same pair of files twice, in
\* opposite orders, and one row is stored
C16_Witness ==
    /\ cache_call.op = "cache_pairs_bulk"
    /\ ~cache_call.raised
    /\ Len(cache_call.args) = 2
    /\ FilePair(cache_call.args[1][1], cache_call.args[1][2])
          = FilePair(cache_call.args[2][1], cache_call.args[2][2])
    /\ cache_call.args[1] # cache_call.args[2]
    /\ get_cached_count(db.rows) = 1

\* C17: after any sequence of skip-cache operations with any path arguments
\* every stored row (path_a, path_b) has path_a < path_b lexicographically
\* and no two rows have the same (path_a, path_b).
C17_RowsSortedUnique ==
    \A row \in BagToSet(db.rows) :
       /\ str_lt(row[1], row[2])
       /\ CopiesIn(row, db.rows) = 1

\* C18: a stored entry stays stored until an explicit clear: init_cache_db,
\* is_pair_cached, the count query and every insert leave each previously
\* stored pair present, and clear leaves the store empty.
C18_StoredUntilClear ==
    /\ [][cache_call'.op # "clear_cache"
            => \A row \in BagToSet(db.rows) : BagIn(row, db'.rows)]_vars
    /\ []((cache_call.op = "clear_cache" /\ ~cache_call.raised) => db.rows = EmptyBag)

\* C18 witness: init_cache_db has run on a store that holds an entry
C18_Witness ==
    /\ cache_call.op = "init_cache_db"
    /\ db.rows # EmptyBag

(***************************************************************************)
(* Claims about the interactive session.                                   *)
(***************************************************************************)
\* C11: if the cancellation flag becomes set at any point of an interactive
\* session, no skip-cache write happens in that session, even if the user
\* had already rejected some pairs.
C11_NoWriteWhenCancelled ==
    shutdown_event => saved = <<>>

\* C11 witness: a session in which the user had rejected a pair ended with
\* the flag set and nothing written
C11_Witness ==
    /\ ui_pc = "ended"
    /\ shutdown_event
    /\ ri_skipped_pairs # <<>>
    /\ saved = <<>>

\* the unordered pair of files of a candidate
CandPair(dup_cand) == FilePair(path_text(dup_cand[1]["path"]), path_text(dup_cand[2]["path"]))

\* C14: a pair the user rejected in a session that ended with the cache
\* saved is never presented for confirmation in a later session, whichever
\* of the two files the later scan labels older.
C14_RejectedNeverAskedAgain ==
    \A k \in DOMAIN presented :
       \A r \in rejected_saved : CandPair(presented[k].cand) # FilePair(r[1], r[2])

\* C14 witness: the second session found a pair that an earlier session had
\* saved with the labels the other way round, left it out and asked about
\* another pair
C14_Witness ==
    /\ session = 2
    /\ presented # <<>>
    /\ \E k \in DOMAIN filtered_out :
          <<path_text(filtered_out[k][2]["path"]), path_text(filtered_out[k][1]["path"])>>
             \in rejected_saved

\* the deletion phase ran to its end
DeletionFinished == ri_dup_cand_list # <<>> /\ del_i > Len(ri_dup_cand_list)

\* the session was cut short: by Ctrl-C, by the flag, or by an exception
SessionInterrupted == interrupted \/ shutdown_event \/ exit_kind = "exception"

\* C19: run_interactive persists the session's rejected pairs, in one bulk
\* write at the end of the session, exactly when the session was not
\* interrupted, the rejected list is non-empty, and either no pair was
\* accepted or the deletion phase finished without any "n" answer; if a
\* deletion prompt was answered "n", nothing is written.
C19_SavedExactlyWhen ==
    /\ ui_pc # "ended" => saved = <<>>
    /\ Len(saved) <= 1
    /\ saved # <<>> => saved[1] = skipped_pairs
    /\ has_rejection => saved = <<>>
    /\ ui_pc = "ended"
          => (saved # <<>>
                <=> /\ ~SessionInterrupted
                    /\ skipped_pairs # <<>>
                    /\ (dup_cand_list = <<>> \/ (DeletionFinished /\ ~has_rejection)))

\* C19 witness: a session with an accepted and a rejected pair ended after a
\* complete deletion phase and wrote the rejected pair
C19_Witness ==
    /\ ui_pc = "ended"
    /\ dup_cand_list # <<>>
    /\ DeletionFinished
    /\ saved # <<>>

\* the candidates presented with a given answer, in order
RECURSIVE Answered(_, _)
Answered(shown, answers) ==
    IF shown = <<>> THEN <<>>
    ELSE (IF Head(shown).ans \in answers THEN <<Head(shown).cand>> ELSE <<>>)
         \o Answered(Tail(shown), answers)

PathsOf(cands) ==
    [k \in DOMAIN cands |-> <<path_text(cands[k][1]["path"]), path_text(cands[k][2]["path"])>>]

\* C20: in the confirmation loop every presented candidate ends in exactly
\* one place: an accept answer puts it in the deletion list only, a reject
\* answer in the skip list only, and an abort answer stops the loop leaving
\* that candidate and all candidates not yet presented in neither list; the
\* two lists are disjoint sub-sequences of the presented candidates.
C20_EachAnswerOnePlace ==
    /\ \A k \in DOMAIN presented : presented[k].cand = pending_questions[k]
    /\ dup_cand_list = Answered(presented, {"y"})
    /\ skipped_pairs = PathsOf(Answered(presented, {"n", ""}))
    /\ \A k \in DOMAIN presented : presented[k].ans = "q" => k = Len(presented) /\ ui_pc # "ask"
    /\ \A k \in DOMAIN dup_cand_list : \A n \in DOMAIN skipped_pairs :
          PathsOf(dup_cand_list)[k] # skipped_pairs[n]
    /\ Len(dup_cand_list) + Len(skipped_pairs) <= Len(presented)

\* C20 witness: one candidate was accepted, one rejected and at the third
\* the user aborted
C20_Witness ==
    /\ Len(presented) = 3
    /\ Len(dup_cand_list) = 1
    /\ Len(skipped_pairs) = 1
    /\ presented[3].ans = "q"

(***************************************************************************)
(* Claims about the deletion phase and the status lines.                   *)
(***************************************************************************)
\* "a" was answered at a prompt before iteration k of the deletion loop
AllBefore(k) == \E m \in 1..(k - 1) : del_log[m].prompted /\ del_log[m].ans = "a"

\* exec_delete has returned to line 483
ExecDeleteReturned == ri_dup_cand_list # <<>> /\ exit_kind = "returned"

\* the files the deletion phase has moved to the trash
Moved == UNION {del_log[k].moved : k \in DOMAIN del_log}

\* C21: in the deletion phase the only file ever moved for a pair is its
\* newer file, and it is moved exactly when it exists at its turn and either
\* the answer for this pair is "y" or "a", or "a" was answered for an
\* earlier pair (after which no further prompt is shown); exec_delete
\* returns False exactly when at least one prompt was answered "n".
C21_MovedExactlyWhen ==
    /\ \A k \in DOMAIN del_log :
          LET e == del_log[k]
          IN  /\ e.moved \subseteq {e.cand[2]["path"]}
              /\ e.cand[1]["mtime"] <= e.cand[2]["mtime"]
              /\ e.moved # {} <=> /\ e.existed
                                  /\ \/ e.prompted /\ e.ans \in {"y", "a"}
                                     \/ AllBefore(k)
              /\ AllBefore(k) => ~e.prompted
    /\ ExecDeleteReturned
          => (~should_save_cache <=> \E k \in DOMAIN del_log : del_log[k].prompted
                                                               /\ del_log[k].ans = "n")

\* C21 witness: "a" was answered for the first of three pairs, its newer
\* file and a later one were moved without a further prompt
C21_Witness ==
    /\ ExecDeleteReturned
    /\ Len(del_log) = 3
    /\ del_log[1].ans = "a"
    /\ del_log[1].moved # {}
    /\ \E k \in 2..3 : del_log[k].moved # {} /\ ~del_log[k].prompted

Reported(line) == \E k \in DOMAIN status : status[k] = line

\* C24: every session that ends with the cancellation flag set reports the
\* "interrupted" status and never "no duplicate candidates found"; a session
\* that completes without cancellation and with no accepted pair reports
\* "no duplicate candidates found" and never "interrupted".
C24_StatusDistinct ==
    ui_pc = "ended"
       => /\ shutdown_event => Reported("interrupted") /\ ~Reported("no_candidates")
          /\ (~shutdown_event /\ exit_kind = "returned" /\ ri_dup_cand_list = <<>>)
                => Reported("no_candidates") /\ ~Reported("interrupted")

\* the order (modification time, position in the record list)
Before(f, g) ==
    \/ f["mtime"] < g["mtime"]
    \/ f["mtime"] = g["mtime"] /\ f["index"] < g["index"]

\* the older-to-newer relation of a list of candidates, on paths
OlderNewer(cands) == {<<cands[k][1]["path"], cands[k][2]["path"]>> : k \in DOMAIN cands}

\* the pairs joined by a path of at most n steps of a relation
RECURSIVE Reach(_, _)
Reach(rel, n) ==
    IF n <= 1 THEN rel
    ELSE LET r == Reach(rel, n - 1)
             joined == {pq \in r \X rel : pq[1][2] = pq[2][1]}
         IN  r \cup {<<pq[1][1], pq[2][2]>> : pq \in joined}

Acyclic(rel) == \A p \in Reach(rel, Cardinality(rel)) : p[1] # p[2]

\* the files of the accepted pairs, as records
AcceptedFiles == {ri_dup_cand_list[k][n] : k \in DOMAIN ri_dup_cand_list, n \in 1..2}

\* the pairs of distinct files connected by accepted pairs: two files are
\* in one group when they are connected
Connected ==
    LET rel == OlderNewer(ri_dup_cand_list)
        sym == rel \cup {<<p[2], p[1]>> : p \in rel}
    IN  IF sym = {} THEN {} ELSE Reach(sym, Cardinality(sym))

\* C30: in every candidate pair produced by a scan the newer file is
\* strictly greater than the older file in the order (modification time,
\* position in the record list); hence the older-to-newer relation over all
\* candidates is acyclic, and after the deletion phase has processed any set
\* of accepted pairs with any answers, in every group of files connected by
\* accepted pairs the file that is least in that order has not been moved.
C30_OldestOfGroupKept ==
    /\ \A k \in DOMAIN all_results : Before(all_results[k][1], all_results[k][2])
    /\ \A k \in DOMAIN ri_dup_cand_list : Before(ri_dup_cand_list[k][1], ri_dup_cand_list[k][2])
    /\ Acyclic(OlderNewer(all_results))
    /\ Acyclic(OlderNewer(ri_dup_cand_list))
    /\ del_log # <<>>
          => LET group == Connected
             IN  \A f \in AcceptedFiles :
                    (\A g \in AcceptedFiles :
                        <<f["path"], g["path"]>> \in group /\ g["path"] # f["path"]
                           => Before(f, g))
                       => f["path"] \notin Moved

\* C30 witness: three pairs over three files were accepted and the two
\* newer files moved; the oldest file is left
C30_Witness ==
    /\ ExecDeleteReturned
    /\ Len(ri_dup_cand_list) = 3
    /\ Cardinality(Moved) = 2
    /\ Cardinality(fs) = 1

(***************************************************************************)
(* Claims about the listing and precompute phases.                         *)
(***************************************************************************)
\* the positions of the paths tried whose stat() succeeded
StatOk == {k \in DOMAIN pre_stat : pre_stat[k]}

\* C23: precompute_file_info, when not cancelled, returns exactly one
\* record for each input path whose metadata retrieval succeeds and none for
\* paths that fail, never aborts on a per-file I/O error, and invokes the
\* progress callback exactly once per input path, succeeded or failed.
C23_OneRecordPerReadablePath ==
    /\ pre_callbacks = Len(pre_stat)
    /\ Len(pre_result) = Cardinality(StatOk)
    /\ {pre_result[k].index : k \in DOMAIN pre_result} = StatOk
    /\ \A k \in DOMAIN pre_result : pre_result[k].path = pre_input[pre_result[k].index]
    /\ prep_pc = "precomputed" /\ ~shutdown_event
          => /\ Len(pre_stat) = Len(pre_input)
             /\ pre_callbacks = Len(pre_input)

\* C23 witness: an uncancelled precompute over three paths returned, with a
\* path that failed between two that succeeded
C23_Witness ==
    /\ prep_pc = "precomputed"
    /\ ~shutdown_event
    /\ pre_stat = <<TRUE, FALSE, TRUE>>
    /\ Len(pre_result) = 2
    /\ pre_callbacks = 3

\* C28: once the cancellation flag is set, list_files appends no further
\* path and precompute_file_info creates no further record and fires no
\* further progress callback; each returns what it had collected so far, and
\* a session cancelled during listing proceeds to neither precompute nor
\* comparison.
C28_NothingAfterCancel ==
    prep_at_shutdown # None
       => /\ lf_file_path_list = prep_at_shutdown.listed
          /\ lf_callbacks = prep_at_shutdown.lf_callbacks
          /\ pre_result = prep_at_shutdown.result
          /\ pre_callbacks = prep_at_shutdown.pre_callbacks
          /\ prep_at_shutdown.pc \in {"list_files", "listed"}
                => /\ prep_pc \in {"list_files", "listed", "cancelled"}
                   /\ pre_input = <<>>
                   /\ pre_stat = <<>>

\* C28 witness: the flag was set after the first of the files of the
\* directory was listed; list_dup_cand returned without the others and
\* without a precompute
C28_Witness ==
    /\ prep_pc = "cancelled"
    /\ prep_at_shutdown # None
    /\ prep_at_shutdown.pc = "list_files"
    /\ Len(lf_file_path_list) = 1
    /\ Len(walk[1].files) = 2
    /\ \A k \in 1..2 : walk[1].files[k].name[1] # "." /\ walk[1].files[k].is_file = "yes"

\* C28 witness for precompute: the flag was set after the first record,
\* and precompute_file_info returned that record alone
C28_WitnessPrecompute ==
    /\ prep_pc = "precomputed"
    /\ prep_at_shutdown # None
    /\ prep_at_shutdown.pc = "precompute"
    /\ Len(pre_result) = 1
    /\ Len(pre_input) = 3

(***************************************************************************)
(* Claims about the task sizing.                                           *)
(***************************************************************************)
\* the comparisons of a task [start, end): the sum of (n - 1 - i) for i in
\* start..end-1
Covered(task, n) ==
    LET rows == task[2] - task[1]
    IN  rows * (n - 1) - ((task[1] + task[2] - 1) * rows) \div 2

\* C26: for n records and w workers whose total comparison count
\* n*(n-1)/2 is at least max(200, w*50), the greedy partition of start
\* indices produces at least max(200, w*50) tasks.
C26_AtLeastMinTasks ==
    tk_pc = "done" /\ (tk_n * (tk_n - 1)) \div 2 >= Max(200, tk_workers * 50)
       => tk_len >= Max(200, tk_workers * 50)

\* C27: for every n and worker count, no task formed by the greedy
\* partition covers more than 500,000 comparisons.
C27_AtMostMaxComparisons ==
    tk_last # None => Covered(tk_last, tk_n) <= 500000

(***************************************************************************)
(* Claims about the progress accounting.                                   *)
(***************************************************************************)
\* the sum of the n-th components of the calls of the progress callback
RECURSIVE SumOf(_, _)
SumOf(calls, n) == IF calls = <<>> THEN 0 ELSE Head(calls)[n] + SumOf(Tail(calls), n)

\* C25: in an uncancelled run the progress callback is invoked exactly once
\* per task, the sum of its valid-comparison increments equals
\* count_valid_comparisons(file_infos), and in every run, cancelled or not,
\* the sum of its found increments equals the length of the returned list.
C25_ProgressAgrees ==
    /\ CleanReturn
          => /\ Len(progress) = Len(tasks)
             /\ SumOf(progress, 1) = count_valid_comparisons(file_infos)
    /\ pc = "returned" => SumOf(progress, 2) = Len(all_results)

\* C25 witness: a clean return over several tasks and two directories, with
\* a pair of records in one directory and a candidate found
C25_Witness ==
    /\ CleanReturn
    /\ Len(tasks) >= 2
    /\ Cardinality({file_infos[k].dir_path : k \in DOMAIN file_infos}) = 2
    /\ SumOf(progress, 1) >= 1
    /\ all_results # <<>>

\* C25 witness of a cancelled run: it returned a part of the candidates,
\* as many as the callback had counted
C25_WitnessCancelled ==
    /\ ReturnedCancelled
    /\ all_results # <<>>
    /\ Len(progress) < Len(tasks)

(***************************************************************************)
(* Claims about the cheap similarity estimate.                             *)
(***************************************************************************)
\* the return statement of the cascade with the cheap-estimate step (lines
\* 193-196) removed
line_without_estimate(info1, info2, match_th) ==
    IF length_prefilter(info1, info2) THEN 191
    ELSE IF FracLE(ratio(info1.normalized, info2.normalized), match_th) THEN 198
    ELSE IF has_zengo_diff(info1.name, info2.name) THEN 202
    ELSE IF has_episode_number_diff(info1.name, info2.name) THEN 206
    ELSE IF size_filter(info1, info2) THEN 213
    ELSE 223

\* C29: for all pairs of normalized names the cheap estimate is greater than
\* or equal to the exact similarity ratio, so for every pair and threshold
\* the filter cascade with the cheap-estimate step removed returns the same
\* accept/reject result as the cascade with it.
C29_EstimateIsUpperBound ==
    cp_called
       => /\ FracLE(ratio(cp_info1.normalized, cp_info2.normalized),
                    quick_ratio(cp_info1.normalized, cp_info2.normalized))
          /\ (cp_result # None) = (line_without_estimate(cp_info1, cp_info2, cp_th) = 223)
          /\ cp_line = 196 => line_without_estimate(cp_info1, cp_info2, cp_th) = 198

\* C29 witness: a pair whose estimate is above the threshold and above the
\* exact ratio, rejected by the exact ratio
C29_Witness ==
    /\ cp_called
    /\ cp_line = 198
    /\ ~FracLE(quick_ratio(cp_info1.normalized, cp_info2.normalized),
                ratio(cp_info1.normalized, cp_info2.normalized))

\* C29 witness of a pair rejected by the estimate
C29_WitnessEstimate ==
    /\ cp_called
    /\ cp_line = 196

====
